---- MODULE Spec2Model ----
(***************************************************************************)
(* The hook dispatch engine of src/hooks: the handler registry             *)
(* (HookManager.entries, HookManager.handlers), the rate limiter, the      *)
(* per-handler statistics, the lifecycle bus and HookManager::execute.     *)
(*                                                                         *)
(* Conventions.  Option<T> is a sequence of length 0 (None) or 1 (Some).   *)
(* A DashMap is a function whose DOMAIN is the set of keys present.        *)
(* Instant / Utc::now are the integer clock `now`; a Duration is a number  *)
(* of clock ticks.  A JSON value is a small integer.                       *)
(***************************************************************************)
EXTENDS Integers, Sequences, FiniteSets, Bags, TLC

VARIABLES
    entries,         \* HookManager.entries : name -> HandlerEntry
    handlers,        \* HookManager.handlers : hook type -> Vec<String>
    enabled,         \* HookManager.enabled
    global_timeout,  \* HookManager.global_timeout
    history,         \* HookManager.history (the Vec behind the mutex)
    spawned,         \* history tasks spawned by record_history, not yet run
    active,          \* HookLifecycle.active_executions : name -> Pre timestamp
    events,          \* per fire: the lifecycle events an observer received
    fires,           \* per fire: the position of one HookManager::execute call
    now,             \* the clock
    ret,             \* what the registry call of the last step returned
    registered,      \* log: names in the order of their registration
    returned,        \* log, per fire: what each handler execution ended in
    rl_log,          \* log, per name: when its current limiter admitted and denied
    calls,           \* per caller: the position of one register or unregister call
    executions,      \* how many executions have ended and called record_history
    ctx              \* the HookContext values made so far and the cells they share

vars == <<entries, handlers, enabled, global_timeout, history, spawned,
          active, events, fires, now, ret, registered, returned, rl_log, calls,
          executions, ctx>>

(***************************************************************************)
(* Bounds of the model.                                                    *)
(***************************************************************************)
MaxTime == 3
MaxExec == 3
MaxData == 2
MaxCtx == 3

Names     == {"a", "b", "c"}
HookTypes == {"request_received", "tool_pre_execution"}
Handlers  == {"h1", "h2"}
Data      == 0..MaxData
Messages  == {"bad input", "policy reject"}
Fires     == {1, 2}
Callers   == {1, 2}

(***************************************************************************)
(* Program constants.                                                      *)
(***************************************************************************)
HIGHEST == 0
HIGH    == 100
NORMAL  == 500
LOW     == 900
LOWEST  == 1000
DefaultTimeout == 5
max_history == 1000

None    == <<>>
Some(x) == <<x>>
IsSome(o) == Len(o) = 1
Unwrap(o) == o[1]
UnwrapOr(o, d) == IF IsSome(o) THEN o[1] ELSE d

(***************************************************************************)
(* Maps.                                                                   *)
(***************************************************************************)
MapInsert(m, k, v) == [x \in (DOMAIN m) \cup {k} |-> IF x = k THEN v ELSE m[x]]
MapRemove(m, k)    == [x \in (DOMAIN m) \ {k} |-> m[x]]
EmptyMap           == [x \in {} |-> 0]

Contains(s, x) == \E i \in 1..Len(s) : s[i] = x
Retain(s, x)   == SelectSeq(s, LAMBDA h : h # x)

(***************************************************************************)
(* ExecutionResult, HookError.                                             *)
(***************************************************************************)
Continue     == [kind |-> "Continue"]
Stop(o)      == [kind |-> "Stop", data |-> o]
Replace(d)   == [kind |-> "Replace", data |-> d]
Retry        == [kind |-> "Retry"]
ErrorResult(m) == [kind |-> "Error", message |-> m, details |-> None]

\* what ValidationHandler::execute returns when validate_rules gave the one
\* error that the required field id is missing
ValidationFailed ==
    [kind |-> "Error",
     message |-> "Validation failed: Missing required field: id",
     details |-> Some([code |-> "VALIDATION_FAILED",
                       errors |-> <<"Missing required field: id">>])]

ExecutionResults ==
    {Continue, Retry, Stop(None)}
        \cup {Stop(Some(d)) : d \in Data}
        \cup {Replace(d) : d \in Data}
        \cup {ErrorResult(m) : m \in Messages}
        \cup {ValidationFailed}

\* mutant: the error does not name the handler
execution_failed_unnamed(n, m) == [kind |-> "ExecutionFailed", handler |-> "", source |-> m]

HandlerNotFound(n)      == [kind |-> "HandlerNotFound", handler |-> n]
RegistrationFailed(n)   == [kind |-> "RegistrationFailed", handler |-> n]
execution_failed(n, m)  == [kind |-> "ExecutionFailed", handler |-> n, source |-> m]
timeout_error(n, d)     == [kind |-> "Timeout", handler |-> n, duration |-> d]
rate_limit_exceeded(n, l, w) ==
    [kind |-> "RateLimitExceeded", handler |-> n, limit |-> l, window |-> w]

Ok(v)  == [ok |-> TRUE, value |-> v]
Err(e) == [ok |-> FALSE, error |-> e]

Unit == "()"

\* ret while the last step was not a call of the registry
NoCall == [op |-> "", name |-> "", result |-> Ok(Unit)]

(***************************************************************************)
(* HookStats.                                                              *)
(***************************************************************************)
DefaultStats ==
    [total_executions |-> 0, successful_executions |-> 0,
     failed_executions |-> 0, average_duration |-> None,
     max_duration |-> None, last_execution |-> None]

update_duration_stats(s, duration) ==
    LET avg == IF IsSome(s.average_duration)
               THEN (Unwrap(s.average_duration) * (s.total_executions - 1) + duration)
                        \div s.total_executions
               ELSE duration
        max == IF IsSome(s.max_duration) /\ ~(duration > Unwrap(s.max_duration))
               THEN Unwrap(s.max_duration)
               ELSE duration
    IN  [s EXCEPT !.average_duration = Some(avg), !.max_duration = Some(max)]

\* mutant: the execution is counted as a failure
record_success_as_failure(s, duration, t) ==
    update_duration_stats(
        [s EXCEPT !.total_executions = @ + 1,
                  !.failed_executions = @ + 1,
                  !.last_execution = Some(t)],
        duration)

record_success(s, duration, t) ==
    update_duration_stats(
        [s EXCEPT !.total_executions = @ + 1,
                  !.successful_executions = @ + 1,
                  !.last_execution = Some(t)],
        duration)

\* mutant: the failure is not counted
record_failure_uncounted(s, duration, t) ==
    update_duration_stats(
        [s EXCEPT !.total_executions = @ + 1,
                  !.last_execution = Some(t)],
        duration)

record_failure(s, duration, t) ==
    update_duration_stats(
        [s EXCEPT !.total_executions = @ + 1,
                  !.failed_executions = @ + 1,
                  !.last_execution = Some(t)],
        duration)

(***************************************************************************)
(* RateLimit.                                                              *)
(***************************************************************************)
NewRateLimit(max_calls, window) ==
    [max_calls |-> max_calls, window |-> window, calls |-> <<>>]

\* calls.retain(|&call_time| now.duration_since(call_time) < self.window)
RetainCalls(rl, t) == SelectSeq(rl.calls, LAMBDA c : t - c < rl.window)

\* mutant: a full window admits one more call
AdmitsOneMore(rl, t) == Len(RetainCalls(rl, t)) <= rl.max_calls

\* the value check_and_update returns
Admits(rl, t) == Len(RetainCalls(rl, t)) < rl.max_calls

\* the limiter check_and_update leaves behind
check_and_update(rl, t) ==
    [rl EXCEPT !.calls = IF Admits(rl, t)
                         THEN Append(RetainCalls(rl, t), t)
                         ELSE RetainCalls(rl, t)]

(***************************************************************************)
(* Registry: the sort of a hook type's list, register, unregister.         *)
(***************************************************************************)
\* the key of handlers.sort_by_key: the entry's priority, NORMAL when absent
PriorityKey(ents, h) == IF h \in DOMAIN ents THEN ents[h].priority ELSE NORMAL

\* mutant: x placed before the elements of equal key (the sort is not stable)
InsertBeforeEqual(ents, sorted, x) ==
    LET k == Cardinality({i \in 1..Len(sorted) :
                    PriorityKey(ents, sorted[i]) < PriorityKey(ents, x)})
    IN  SubSeq(sorted, 1, k) \o <<x>> \o SubSeq(sorted, k + 1, Len(sorted))

\* x placed behind every element whose key is not greater: a stable insertion
InsertByKey(ents, sorted, x) ==
    LET k == Cardinality({i \in 1..Len(sorted) :
                    PriorityKey(ents, sorted[i]) <= PriorityKey(ents, x)})
    IN  SubSeq(sorted, 1, k) \o <<x>> \o SubSeq(sorted, k + 1, Len(sorted))

RECURSIVE SortFrom(_, _, _)
SortFrom(ents, sorted, rest) ==
    IF rest = <<>> THEN sorted
    ELSE SortFrom(ents, InsertByKey(ents, sorted, Head(rest)), Tail(rest))

\* Vec::sort_by_key: stable, ascending
sort_by_key(ents, list) == SortFrom(ents, <<>>, list)

\* one round of the loop over hook_types: or_insert_with, push, sort
PushAndSort(ents, hs, hook_type, name) ==
    LET old == IF hook_type \in DOMAIN hs THEN hs[hook_type] ELSE <<>>
    IN  MapInsert(hs, hook_type, sort_by_key(ents, Append(old, name)))

RECURSIVE RegisterTypes(_, _, _, _)
RegisterTypes(ents, hs, hook_types, name) ==
    IF hook_types = <<>> THEN hs
    ELSE RegisterTypes(ents, PushAndSort(ents, hs, Head(hook_types), name),
                       Tail(hook_types), name)

NewEntry(handler, priority) ==
    [handler |-> handler, priority |-> priority, stats |-> DefaultStats,
     enabled |-> TRUE, rate_limit |-> None]

\* mutant: the lists keep the name
RetainNothing(hs, name) == hs

\* handlers.retain(|h| h != name) on every list
RetainAll(hs, name) == [t \in DOMAIN hs |-> Retain(hs[t], name)]

\* HookManager::list_handlers, as a set of tuples (the iteration order of a
\* DashMap is unspecified)
list_handlers ==
    {<<n, {t \in DOMAIN handlers : Contains(handlers[t], n)},
       entries[n].priority, entries[n].enabled>> : n \in DOMAIN entries}

(***************************************************************************)
(* Lifecycle bus, history.                                                 *)
(***************************************************************************)
Event(handler, phase) == [handler |-> handler, phase |-> phase]

HistoryEntry(hook_type, handler, duration, result) ==
    [hook_type |-> hook_type, handler |-> handler,
     duration |-> duration, result |-> result]

\* mutant: a full history drops the new record
PushHistoryKeepsOldest(hist, e) ==
    LET h == Append(hist, e)
    IN  IF Len(h) > max_history THEN SubSeq(h, 1, max_history) ELSE h

\* the body of the task record_history spawns: push, then trim from the front
PushHistory(hist, e) ==
    LET h == Append(hist, e)
    IN  IF Len(h) > max_history
        THEN SubSeq(h, Len(h) - max_history + 1, Len(h))
        ELSE h

\* HookManager::get_history: the newest records first, at most limit of them
get_history(limit) ==
    LET n == IF IsSome(limit) /\ Unwrap(limit) < Len(history)
             THEN Unwrap(limit) ELSE Len(history)
    IN  [i \in 1..n |->
            LET h == history[Len(history) - i + 1]
            IN  <<h.handler, h.duration, h.result>>]

(***************************************************************************)
(* One HookManager::execute call (a fire).                                 *)
(*   idle     : no call in progress                                        *)
(*   ready    : at the head of the loop over handler_names                 *)
(*   awaiting : suspended in timeout(global_timeout, handler.execute(..)), *)
(*              the RefMut of entries.get_mut(handler_name) still held      *)
(*   done     : the call has returned `result`                             *)
(***************************************************************************)
\* payload is the data of the HookPayload built for the current name; late
\* is a log: the names registered since the snapshot, while the fire runs
IdleFire ==
    [pc |-> "idle", hook_type |-> "", names |-> <<>>, idx |-> 0,
     input |-> 0, data |-> 0, payload |-> 0, handler |-> "", start |-> 0,
     result |-> None, late |-> {}]

\* the shard of `entries` that holds `name` is write-locked by a suspended fire
EntryLocked(name) ==
    \E f \in Fires : fires[f].pc = "awaiting" /\ fires[f].handler = name

\* mutant: Stop is taken as Continue
HandleResultStopGoesOn(result, data, handler_name) ==
    CASE result.kind \in {"Continue", "Stop", "Retry"} -> [return |-> None, data |-> data]
      [] result.kind = "Replace" -> [return |-> None, data |-> result.data]
      [] result.kind = "Error" ->
            [return |-> Some(Err(execution_failed(handler_name, result.message))),
             data |-> data]

\* what the match on the ExecutionResult does: the value the fire returns at
\* once (None: the loop goes on) and the data the loop goes on with
HandleResult(result, data, handler_name) ==
    CASE result.kind = "Continue" -> [return |-> None, data |-> data]
      [] result.kind = "Stop" ->
            [return |-> Some(Ok(UnwrapOr(result.data, data))), data |-> data]
      [] result.kind = "Replace" -> [return |-> None, data |-> result.data]
      [] result.kind = "Retry" -> [return |-> None, data |-> data]
      [] result.kind = "Error" ->
            [return |-> Some(Err(execution_failed(handler_name, result.message))),
             data |-> data]

\* mutant: the error reports the default timeout, not the configured one
TimeoutErrorDefault(handler_name) == timeout_error(handler_name, DefaultTimeout)

\* the error of the Err(_) arm of the timeout match
TimeoutError(handler_name) == timeout_error(handler_name, global_timeout)

\* the error returned when check_and_update denies
RateLimitError(handler_name, rl) ==
    rate_limit_exceeded(handler_name, rl.max_calls, rl.window)

Returned(f, result) ==
    [fires[f] EXCEPT !.pc = "done", !.result = Some(result), !.handler = "",
                     !.late = {}]

\* the fires, the running ones having logged the registration of name
LogLate(name) ==
    [f \in Fires |->
        IF fires[f].pc \in {"ready", "awaiting"}
        THEN [fires[f] EXCEPT !.late = @ \cup {name}]
        ELSE fires[f]]

\* mutant: the loop goes on with the data it had
LoopingKeepsData(f, data) ==
    [fires[f] EXCEPT !.pc = "ready", !.idx = @ + 1, !.handler = ""]

Looping(f, data) ==
    [fires[f] EXCEPT !.pc = "ready", !.idx = @ + 1, !.data = data, !.handler = ""]

Outcome(handler, result) == [handler |-> handler, result |-> result]
HandlerError(e) == [kind |-> "HandlerError", error |-> e]
Elapsed == [kind |-> "Elapsed"]

EmptyLog == [admitted |-> <<>>, denied |-> {}]

\* a caller that is in no call of the registry
IdleCall ==
    [pc |-> "idle", name |-> "", hook_types |-> <<>>, handler |-> "",
     priority |-> 0, lists |-> {}]

\* mutant: the snapshot is taken whether or not the engine is enabled
FireStartIgnoresEnabled(f, hook_type, data) ==
    /\ fires[f].pc = "idle"
    /\ fires' = [fires EXCEPT ![f] =
            [IdleFire EXCEPT !.pc = "ready", !.hook_type = hook_type,
                             !.input = data, !.data = data, !.idx = 1,
                             !.names = IF hook_type \in DOMAIN handlers
                                       THEN handlers[hook_type] ELSE <<>>]]
    /\ events' = [events EXCEPT ![f] = <<>>]
    /\ returned' = [returned EXCEPT ![f] = <<>>]
    /\ ret' = NoCall
    /\ UNCHANGED <<calls, ctx, executions, entries, handlers, enabled, global_timeout,
                   history, spawned, active, now, registered, rl_log>>

\* execute up to the snapshot of the name list
FireStart(f, hook_type, data) ==
    /\ fires[f].pc = "idle"
    /\ fires' = [fires EXCEPT ![f] =
            IF ~enabled
            THEN [IdleFire EXCEPT !.pc = "done", !.hook_type = hook_type,
                                  !.input = data, !.data = data,
                                  !.result = Some(Ok(data))]
            ELSE [IdleFire EXCEPT !.pc = "ready", !.hook_type = hook_type,
                                  !.input = data, !.data = data, !.idx = 1,
                                  !.names = IF hook_type \in DOMAIN handlers
                                            THEN handlers[hook_type] ELSE <<>>]]
    /\ events' = [events EXCEPT ![f] = <<>>]
    /\ returned' = [returned EXCEPT ![f] = <<>>]
    /\ ret' = NoCall
    /\ UNCHANGED <<calls, ctx, executions, entries, handlers, enabled, global_timeout, history, spawned,
                   active, now, registered, rl_log>>

\* the loop is over: Ok(data)
FireEnd(f) ==
    /\ fires[f].pc = "ready"
    /\ fires[f].idx > Len(fires[f].names)
    /\ fires' = [fires EXCEPT ![f] = Returned(f, Ok(fires[f].data))]
    /\ ret' = NoCall
    /\ UNCHANGED <<calls, ctx, executions, entries, handlers, enabled, global_timeout, history, spawned,
                   active, events, now, registered, returned, rl_log>>

\* mutant: the handler stays in the active executions
remove_active_kept(name) == active

\* HookLifecycle::remove_active, the last step of post_execution and failed
remove_active(name) == MapRemove(active, name)

\* mutant: should_run is asked before the rate limit is checked
FireNextShouldRunFirst(f, should_run) ==
    /\ fires[f].pc = "ready"
    /\ fires[f].idx <= Len(fires[f].names)
    /\ LET name == fires[f].names[fires[f].idx]
       IN  /\ ~EntryLocked(name)
           /\ IF name \notin DOMAIN entries
              THEN /\ fires' = [fires EXCEPT ![f] = Looping(f, fires[f].data)]
                   /\ UNCHANGED <<entries, events, active, rl_log>>
              ELSE IF ~entries[name].enabled
              THEN /\ fires' = [fires EXCEPT ![f] = Looping(f, fires[f].data)]
                   /\ events' = [events EXCEPT ![f] = Append(@, Event(name, "Skipped"))]
                   /\ UNCHANGED <<entries, active, rl_log>>
              ELSE IF ~should_run
              THEN /\ fires' = [fires EXCEPT ![f] = Looping(f, fires[f].data)]
                   /\ events' = [events EXCEPT ![f] = Append(@, Event(name, "Skipped"))]
                   /\ UNCHANGED <<entries, active, rl_log>>
              ELSE IF /\ IsSome(entries[name].rate_limit)
                      /\ ~Admits(Unwrap(entries[name].rate_limit), now)
              THEN /\ entries' = [entries EXCEPT ![name].rate_limit =
                            Some(check_and_update(Unwrap(@), now))]
                   /\ fires' = [fires EXCEPT ![f] = Returned(f,
                            Err(RateLimitError(name, Unwrap(entries[name].rate_limit))))]
                   /\ rl_log' = [rl_log EXCEPT ![name].denied = @ \cup {now}]
                   /\ UNCHANGED <<events, active>>
              ELSE /\ entries' = [entries EXCEPT ![name].rate_limit =
                            IF IsSome(@) THEN Some(check_and_update(Unwrap(@), now))
                            ELSE @]
                   /\ rl_log' = IF IsSome(entries[name].rate_limit)
                                THEN [rl_log EXCEPT ![name].admitted = Append(@, now)]
                                ELSE rl_log
                   /\ executions < MaxExec
                   /\ fires' = [fires EXCEPT ![f] =
                            [@ EXCEPT !.pc = "awaiting", !.handler = name,
                                      !.start = now,
                                      !.payload = fires[f].data]]
                   /\ events' = [events EXCEPT ![f] =
                            @ \o <<Event(name, "PreExecution"),
                                   Event(name, "Executing")>>]
                   /\ active' = MapInsert(active, name, now)
    /\ ret' = NoCall
    /\ UNCHANGED <<calls, ctx, executions, handlers, enabled, global_timeout, history, spawned, now,
                   registered, returned>>

\* mutant: one timer for the fire, started with its first execution
FireNextOneTimer(f, should_run) ==
    /\ fires[f].pc = "ready"
    /\ fires[f].idx <= Len(fires[f].names)
    /\ LET name == fires[f].names[fires[f].idx]
       IN  /\ ~EntryLocked(name)
           /\ IF name \notin DOMAIN entries
              THEN /\ fires' = [fires EXCEPT ![f] = Looping(f, fires[f].data)]
                   /\ UNCHANGED <<entries, events, active, rl_log>>
              ELSE IF ~entries[name].enabled
              THEN /\ fires' = [fires EXCEPT ![f] = Looping(f, fires[f].data)]
                   /\ events' = [events EXCEPT ![f] = Append(@, Event(name, "Skipped"))]
                   /\ UNCHANGED <<entries, active, rl_log>>
              ELSE IF /\ IsSome(entries[name].rate_limit)
                      /\ ~Admits(Unwrap(entries[name].rate_limit), now)
              THEN /\ entries' = [entries EXCEPT ![name].rate_limit =
                            Some(check_and_update(Unwrap(@), now))]
                   /\ fires' = [fires EXCEPT ![f] = Returned(f,
                            Err(RateLimitError(name, Unwrap(entries[name].rate_limit))))]
                   /\ rl_log' = [rl_log EXCEPT ![name].denied = @ \cup {now}]
                   /\ UNCHANGED <<events, active>>
              ELSE /\ entries' = [entries EXCEPT ![name].rate_limit =
                            IF IsSome(@) THEN Some(check_and_update(Unwrap(@), now))
                            ELSE @]
                   /\ rl_log' = IF IsSome(entries[name].rate_limit)
                                THEN [rl_log EXCEPT ![name].admitted = Append(@, now)]
                                ELSE rl_log
                   /\ IF ~should_run
                      THEN /\ fires' = [fires EXCEPT ![f] = Looping(f, fires[f].data)]
                           /\ events' = [events EXCEPT ![f] =
                                    Append(@, Event(name, "Skipped"))]
                           /\ UNCHANGED active
                      ELSE /\ executions < MaxExec
                           /\ fires' = [fires EXCEPT ![f] =
                                    [@ EXCEPT !.pc = "awaiting", !.handler = name,
                                              !.start = IF Len(returned[f]) = 0 THEN now ELSE @,
                                              !.payload = fires[f].data]]
                           /\ events' = [events EXCEPT ![f] =
                                    @ \o <<Event(name, "PreExecution"),
                                           Event(name, "Executing")>>]
                           /\ active' = MapInsert(active, name, now)
    /\ ret' = NoCall
    /\ UNCHANGED <<calls, ctx, executions, handlers, enabled, global_timeout, history, spawned, now,
                   registered, returned>>

\* one iteration of the loop, from entries.get_mut to the suspension in the
\* handler's execute (or to the continue / return before it); should_run is
\* the answer of the handler's should_run predicate
FireNext(f, should_run) ==
    /\ fires[f].pc = "ready"
    /\ fires[f].idx <= Len(fires[f].names)
    /\ LET name == fires[f].names[fires[f].idx]
       IN  /\ ~EntryLocked(name)
           /\ IF name \notin DOMAIN entries
              THEN /\ fires' = [fires EXCEPT ![f] = Looping(f, fires[f].data)]
                   /\ UNCHANGED <<entries, events, active, rl_log>>
              ELSE IF ~entries[name].enabled
              THEN /\ fires' = [fires EXCEPT ![f] = Looping(f, fires[f].data)]
                   /\ events' = [events EXCEPT ![f] = Append(@, Event(name, "Skipped"))]
                   /\ UNCHANGED <<entries, active, rl_log>>
              ELSE IF /\ IsSome(entries[name].rate_limit)
                      /\ ~Admits(Unwrap(entries[name].rate_limit), now)
              THEN /\ entries' = [entries EXCEPT ![name].rate_limit =
                            Some(check_and_update(Unwrap(@), now))]
                   /\ fires' = [fires EXCEPT ![f] = Returned(f,
                            Err(RateLimitError(name, Unwrap(entries[name].rate_limit))))]
                   /\ rl_log' = [rl_log EXCEPT ![name].denied = @ \cup {now}]
                   /\ UNCHANGED <<events, active>>
              ELSE /\ entries' = [entries EXCEPT ![name].rate_limit =
                            IF IsSome(@) THEN Some(check_and_update(Unwrap(@), now))
                            ELSE @]
                   /\ rl_log' = IF IsSome(entries[name].rate_limit)
                                THEN [rl_log EXCEPT ![name].admitted = Append(@, now)]
                                ELSE rl_log
                   /\ IF ~should_run
                      THEN /\ fires' = [fires EXCEPT ![f] = Looping(f, fires[f].data)]
                           /\ events' = [events EXCEPT ![f] =
                                    Append(@, Event(name, "Skipped"))]
                           /\ UNCHANGED active
                      ELSE /\ executions < MaxExec
                           /\ fires' = [fires EXCEPT ![f] =
                                    [@ EXCEPT !.pc = "awaiting", !.handler = name,
                                              !.start = now,
                                              !.payload = fires[f].data]]
                           /\ events' = [events EXCEPT ![f] =
                                    @ \o <<Event(name, "PreExecution"),
                                           Event(name, "Executing")>>]
                           /\ active' = MapInsert(active, name, now)
    /\ ret' = NoCall
    /\ UNCHANGED <<calls, ctx, executions, handlers, enabled, global_timeout, history, spawned, now,
                   registered, returned>>

\* Ok(Ok(result)): the handler completed with `result` before the timer.
\* The handlers suspend while they work (a channel, a child process,
\* spawn_blocking), so once the deadline has passed the timer is what the
\* next poll finds; at the deadline itself either side may win.
HandlerReturns(f, result) ==
    /\ fires[f].pc = "awaiting"
    /\ now - fires[f].start <= global_timeout
    /\ LET name == fires[f].handler
           duration == now - fires[f].start
           out == HandleResult(result, fires[f].data, name)
       IN  /\ entries' = [entries EXCEPT ![name].stats =
                    record_success(@, duration, now)]
           /\ events' = [events EXCEPT ![f] = Append(@, Event(name, "PostExecution"))]
           /\ active' = remove_active(name)
           /\ spawned' = spawned (+) SetToBag({HistoryEntry(
                    fires[f].hook_type, name, duration, "success")})
           /\ returned' = [returned EXCEPT ![f] = Append(@, Outcome(name, result))]
           /\ fires' = [fires EXCEPT ![f] =
                    IF IsSome(out.return) THEN Returned(f, Unwrap(out.return))
                    ELSE Looping(f, out.data)]
    /\ ret' = NoCall
    /\ executions' = executions + 1
    /\ UNCHANGED <<calls, ctx, handlers, enabled, global_timeout, history, now, registered,
                   rl_log>>

\* Ok(Err(e)): the handler completed with the error e it built itself
HandlerFails(f, e) ==
    /\ fires[f].pc = "awaiting"
    /\ now - fires[f].start <= global_timeout
    /\ LET name == fires[f].handler
           duration == now - fires[f].start
       IN  /\ entries' = [entries EXCEPT ![name].stats =
                    record_failure(@, duration, now)]
           /\ events' = [events EXCEPT ![f] = Append(@, Event(name, "Failed"))]
           /\ active' = remove_active(name)
           /\ spawned' = spawned (+) SetToBag({HistoryEntry(
                    fires[f].hook_type, name, duration, "error")})
           /\ returned' = [returned EXCEPT ![f] =
                    Append(@, Outcome(name, HandlerError(e)))]
           /\ fires' = [fires EXCEPT ![f] = Returned(f, Err(e))]
    /\ ret' = NoCall
    /\ executions' = executions + 1
    /\ UNCHANGED <<calls, ctx, handlers, enabled, global_timeout, history, now, registered,
                   rl_log>>

\* Err(_): the timer won the race
HandlerTimesOut(f) ==
    /\ fires[f].pc = "awaiting"
    /\ now - fires[f].start >= global_timeout
    /\ LET name == fires[f].handler
           duration == now - fires[f].start
       IN  /\ entries' = [entries EXCEPT ![name].stats =
                    record_failure(@, duration, now)]
           /\ events' = [events EXCEPT ![f] = Append(@, Event(name, "Failed"))]
           /\ active' = remove_active(name)
           /\ spawned' = spawned (+) SetToBag({HistoryEntry(
                    fires[f].hook_type, name, duration, "timeout")})
           /\ returned' = [returned EXCEPT ![f] = Append(@, Outcome(name, Elapsed))]
           /\ fires' = [fires EXCEPT ![f] = Returned(f, Err(TimeoutError(name)))]
    /\ ret' = NoCall
    /\ executions' = executions + 1
    /\ UNCHANGED <<calls, ctx, handlers, enabled, global_timeout, history, now, registered,
                   rl_log>>

\* the host has taken the result; the logs of the fire are dropped
FireReturn(f) ==
    /\ fires[f].pc = "done"
    /\ fires' = [fires EXCEPT ![f] = IdleFire]
    /\ events' = [events EXCEPT ![f] = <<>>]
    /\ returned' = [returned EXCEPT ![f] = <<>>]
    /\ ret' = NoCall
    /\ UNCHANGED <<calls, ctx, executions, entries, handlers, enabled, global_timeout, history, spawned,
                   active, now, registered, rl_log>>

\* a task spawned by record_history runs
\* mutant: the task ends without pushing its record
HistoryTaskDrops ==
    \E e \in BagToSet(spawned) :
        /\ spawned' = spawned (-) SetToBag({e})
        /\ ret' = NoCall
        /\ UNCHANGED <<calls, ctx, executions, entries, handlers, enabled, global_timeout, active, events,
                       fires, now, registered, returned, rl_log, history>>

HistoryTask ==
    \E e \in BagToSet(spawned) :
        /\ history' = PushHistory(history, e)
        /\ spawned' = spawned (-) SetToBag({e})
        /\ ret' = NoCall
        /\ UNCHANGED <<calls, ctx, executions, entries, handlers, enabled, global_timeout, active, events,
                       fires, now, registered, returned, rl_log>>

Tick ==
    /\ now < MaxTime
    /\ now' = now + 1
    /\ ret' = NoCall
    /\ UNCHANGED <<calls, ctx, executions, entries, handlers, enabled, global_timeout, history, spawned,
                   active, events, fires, registered, returned, rl_log>>

(***************************************************************************)
(* Registry calls.  A call that reads or writes an entry waits while a      *)
(* suspended fire holds that entry; each call is taken as one step.         *)
(***************************************************************************)

\* every name whose entry the sort of the lists of hook_types looks up
SortReads(hook_types, name) ==
    {name} \cup {h \in Names : \E i \in 1..Len(hook_types) :
                    /\ hook_types[i] \in DOMAIN handlers
                    /\ Contains(handlers[hook_types[i]], h)}

\* mutant: no check for a duplicate, the entry is replaced
RegisterOverwrites(name, hook_types, handler, priority) ==
    /\ \A h \in SortReads(hook_types, name) : ~EntryLocked(h)
    /\ entries' = MapInsert(entries, name, NewEntry(handler, priority))
    /\ handlers' = RegisterTypes(entries', handlers, hook_types, name)
    /\ registered' = Append(Retain(registered, name), name)
    /\ rl_log' = [rl_log EXCEPT ![name] = EmptyLog]
    /\ fires' = LogLate(name)
    /\ ret' = [op |-> "register", name |-> name, result |-> Ok(Unit)]
    /\ UNCHANGED <<calls, ctx, executions, enabled, global_timeout, history, spawned, active, events,
                   now, returned>>

Register(name, hook_types, handler, priority) ==
    /\ ~EntryLocked(name)
    /\ IF name \in DOMAIN entries
       THEN /\ ret' = [op |-> "register", name |-> name,
                       result |-> Err(RegistrationFailed(name))]
            /\ UNCHANGED <<entries, handlers, registered, rl_log, fires>>
       ELSE /\ \A h \in SortReads(hook_types, name) : ~EntryLocked(h)
            /\ entries' = MapInsert(entries, name, NewEntry(handler, priority))
            /\ handlers' = RegisterTypes(entries', handlers, hook_types, name)
            /\ registered' = Append(registered, name)
            /\ rl_log' = [rl_log EXCEPT ![name] = EmptyLog]
            /\ fires' = LogLate(name)
            /\ ret' = [op |-> "register", name |-> name, result |-> Ok(Unit)]
    /\ UNCHANGED <<calls, ctx, executions, enabled, global_timeout, history, spawned, active, events,
                   now, returned>>

Unregister(name) ==
    /\ ~EntryLocked(name)
    /\ IF name \notin DOMAIN entries
       THEN /\ ret' = [op |-> "unregister", name |-> name,
                       result |-> Err(HandlerNotFound(name))]
            /\ UNCHANGED <<entries, handlers, registered, rl_log>>
       ELSE /\ entries' = MapRemove(entries, name)
            /\ handlers' = RetainAll(handlers, name)
            /\ registered' = Retain(registered, name)
            /\ rl_log' = [rl_log EXCEPT ![name] = EmptyLog]
            /\ ret' = [op |-> "unregister", name |-> name, result |-> Ok(Unit)]
    /\ UNCHANGED <<calls, ctx, executions, enabled, global_timeout, history, spawned, active, events,
                   fires, now, returned>>

\* mutant: the handler is enabled whatever the value
SetHandlerEnabledAlways(name, value) ==
    /\ ~EntryLocked(name)
    /\ IF name \notin DOMAIN entries
       THEN /\ ret' = [op |-> "set_handler_enabled", name |-> name, value |-> value,
                       result |-> Err(HandlerNotFound(name))]
            /\ UNCHANGED entries
       ELSE /\ entries' = [entries EXCEPT ![name].enabled = TRUE]
            /\ ret' = [op |-> "set_handler_enabled", name |-> name, value |-> value,
                       result |-> Ok(Unit)]
    /\ UNCHANGED <<calls, ctx, executions, handlers, enabled, global_timeout, history,
                   spawned, active, events, fires, now, registered, returned, rl_log>>

\* ret also carries the value the call was made with
SetHandlerEnabled(name, value) ==
    /\ ~EntryLocked(name)
    /\ IF name \notin DOMAIN entries
       THEN /\ ret' = [op |-> "set_handler_enabled", name |-> name, value |-> value,
                       result |-> Err(HandlerNotFound(name))]
            /\ UNCHANGED entries
       ELSE /\ entries' = [entries EXCEPT ![name].enabled = value]
            /\ ret' = [op |-> "set_handler_enabled", name |-> name, value |-> value,
                       result |-> Ok(Unit)]
    /\ UNCHANGED <<calls, ctx, executions, handlers, enabled, global_timeout, history, spawned, active,
                   events, fires, now, registered, returned, rl_log>>

\* mutant: the new limiter inherits the calls of the one it replaces
SetRateLimitKeepsCalls(name, max_calls, window) ==
    /\ ~EntryLocked(name)
    /\ IF name \notin DOMAIN entries
       THEN /\ ret' = [op |-> "set_rate_limit", name |-> name,
                       max_calls |-> max_calls, window |-> window,
                       result |-> Err(HandlerNotFound(name))]
            /\ UNCHANGED <<entries, rl_log>>
       ELSE /\ entries' = [entries EXCEPT ![name].rate_limit =
                    Some([NewRateLimit(max_calls, window) EXCEPT !.calls =
                            IF IsSome(entries[name].rate_limit)
                            THEN Unwrap(entries[name].rate_limit).calls ELSE <<>>])]
            /\ rl_log' = [rl_log EXCEPT ![name] = EmptyLog]
            /\ ret' = [op |-> "set_rate_limit", name |-> name,
                       max_calls |-> max_calls, window |-> window,
                       result |-> Ok(Unit)]
    /\ UNCHANGED <<calls, ctx, executions, handlers, enabled, global_timeout, history, spawned, active,
                   events, fires, now, registered, returned>>

\* ret also carries the limit the call was made with
SetRateLimit(name, max_calls, window) ==
    /\ ~EntryLocked(name)
    /\ IF name \notin DOMAIN entries
       THEN /\ ret' = [op |-> "set_rate_limit", name |-> name,
                       max_calls |-> max_calls, window |-> window,
                       result |-> Err(HandlerNotFound(name))]
            /\ UNCHANGED <<entries, rl_log>>
       ELSE /\ entries' = [entries EXCEPT ![name].rate_limit =
                    Some(NewRateLimit(max_calls, window))]
            /\ rl_log' = [rl_log EXCEPT ![name] = EmptyLog]
            /\ ret' = [op |-> "set_rate_limit", name |-> name,
                       max_calls |-> max_calls, window |-> window,
                       result |-> Ok(Unit)]
    /\ UNCHANGED <<calls, ctx, executions, handlers, enabled, global_timeout, history, spawned, active,
                   events, fires, now, registered, returned>>

\* &mut self: no fire borrows the manager
NoFire == \A f \in Fires : fires[f].pc \in {"idle", "done"}

SetGlobalTimeout(d) ==
    /\ NoFire
    /\ global_timeout' = d
    /\ ret' = [op |-> "set_global_timeout", name |-> "", result |-> Ok(Unit)]
    /\ UNCHANGED <<calls, ctx, executions, entries, handlers, enabled, history, spawned, active, events,
                   fires, now, registered, returned, rl_log>>

SetEnabled(value) ==
    /\ NoFire
    /\ enabled' = value
    /\ ret' = [op |-> "set_enabled", name |-> "", result |-> Ok(Unit)]
    /\ UNCHANGED <<calls, ctx, executions, entries, handlers, global_timeout, history, spawned, active,
                   events, fires, now, registered, returned, rl_log>>

(***************************************************************************)
(* register and unregister step by step, as concurrent callers see them:   *)
(* each step is one access to entries or to one list of handlers, which    *)
(* the DashMap makes atomic; nothing makes a whole call atomic.            *)
(***************************************************************************)
OtherVars ==
    <<enabled, global_timeout, history, spawned, active, events, now, returned,
      executions, ctx>>

\* register up to the duplicate check: entries.contains_key(&name)
RegisterCheck(c, name, hook_types, handler, priority) ==
    /\ calls[c].pc = "idle"
    /\ ~EntryLocked(name)
    /\ IF name \in DOMAIN entries
       THEN /\ ret' = [op |-> "register", name |-> name,
                       result |-> Err(RegistrationFailed(name))]
            /\ UNCHANGED calls
       ELSE /\ ret' = NoCall
            /\ calls' = [calls EXCEPT ![c] =
                    [pc |-> "insert", name |-> name, hook_types |-> hook_types,
                     handler |-> handler, priority |-> priority, lists |-> {}]]
    /\ UNCHANGED <<entries, handlers, registered, rl_log>>
    /\ UNCHANGED <<fires, OtherVars>>

\* self.entries.insert(name.clone(), entry): a present entry is replaced
RegisterInsert(c) ==
    /\ calls[c].pc = "insert"
    /\ ~EntryLocked(calls[c].name)
    /\ entries' = MapInsert(entries, calls[c].name,
                            NewEntry(calls[c].handler, calls[c].priority))
    /\ registered' = IF Contains(registered, calls[c].name) THEN registered
                     ELSE Append(registered, calls[c].name)
    /\ rl_log' = [rl_log EXCEPT ![calls[c].name] = EmptyLog]
    /\ calls' = [calls EXCEPT ![c].pc = "push"]
    /\ ret' = NoCall
    /\ UNCHANGED handlers
    /\ fires' = LogLate(calls[c].name)
    /\ UNCHANGED OtherVars

\* one round of the loop over hook_types
RegisterPush(c) ==
    /\ calls[c].pc = "push"
    /\ calls[c].hook_types # <<>>
    /\ \A h \in SortReads(<<Head(calls[c].hook_types)>>, calls[c].name) :
            ~EntryLocked(h)
    /\ handlers' = PushAndSort(entries, handlers, Head(calls[c].hook_types),
                               calls[c].name)
    /\ calls' = [calls EXCEPT ![c].hook_types = Tail(@)]
    /\ ret' = NoCall
    /\ UNCHANGED <<entries, registered, rl_log>>
    /\ UNCHANGED <<fires, OtherVars>>

\* Ok(()) after the loop
RegisterReturn(c) ==
    /\ calls[c].pc = "push"
    /\ calls[c].hook_types = <<>>
    /\ ret' = [op |-> "register", name |-> calls[c].name, result |-> Ok(Unit)]
    /\ calls' = [calls EXCEPT ![c] = IdleCall]
    /\ UNCHANGED <<entries, handlers, registered, rl_log>>
    /\ UNCHANGED <<fires, OtherVars>>

\* unregister up to self.entries.remove(name); the loop that follows visits
\* the lists the map holds at this moment
UnregisterRemove(c, name) ==
    /\ calls[c].pc = "idle"
    /\ ~EntryLocked(name)
    /\ IF name \notin DOMAIN entries
       THEN /\ ret' = [op |-> "unregister", name |-> name,
                       result |-> Err(HandlerNotFound(name))]
            /\ UNCHANGED <<calls, ctx, executions, entries, registered, rl_log>>
       ELSE /\ entries' = MapRemove(entries, name)
            /\ registered' = Retain(registered, name)
            /\ rl_log' = [rl_log EXCEPT ![name] = EmptyLog]
            /\ calls' = [calls EXCEPT ![c] =
                    [IdleCall EXCEPT !.pc = "retain", !.name = name,
                                     !.lists = DOMAIN handlers]]
            /\ ret' = NoCall
    /\ UNCHANGED handlers
    /\ UNCHANGED <<fires, OtherVars>>

\* handlers.retain(|h| h != name) on one list
UnregisterRetain(c) ==
    /\ calls[c].pc = "retain"
    /\ \E t \in calls[c].lists :
            /\ handlers' = [handlers EXCEPT ![t] = Retain(@, calls[c].name)]
            /\ calls' = [calls EXCEPT ![c].lists = @ \ {t}]
    /\ ret' = NoCall
    /\ UNCHANGED <<entries, registered, rl_log>>
    /\ UNCHANGED <<fires, OtherVars>>

\* Ok(()) after the loop
UnregisterReturn(c) ==
    /\ calls[c].pc = "retain"
    /\ calls[c].lists = {}
    /\ ret' = [op |-> "unregister", name |-> calls[c].name, result |-> Ok(Unit)]
    /\ calls' = [calls EXCEPT ![c] = IdleCall]
    /\ UNCHANGED <<entries, handlers, registered, rl_log>>
    /\ UNCHANGED <<fires, OtherVars>>

(***************************************************************************)
(* HookContext.  ctx.contexts lists the context values in the order they   *)
(* were made; the fields shared_state, typed_storage and cancelled of a    *)
(* context are references (Arc) to cells, kept in the sequences of the     *)
(* same names.  parent is the context whose clone the parent field holds   *)
(* (0: None); made is a log of how the context was made.                   *)
(***************************************************************************)
NoContexts ==
    [contexts |-> <<>>, shared_state |-> <<>>, typed_storage |-> <<>>,
     cancelled |-> <<>>]

get_state(c, key) ==
    LET m == ctx.shared_state[ctx.contexts[c].shared_state]
    IN  IF key \in DOMAIN m THEN Some(m[key]) ELSE None

get_typed(c, t) ==
    LET m == ctx.typed_storage[ctx.contexts[c].typed_storage]
    IN  IF t \in DOMAIN m THEN Some(m[t]) ELSE None

is_cancelled(c) == ctx.cancelled[ctx.contexts[c].cancelled]

\* HookContextBuilder::build after with_parent(parent), or with no parent
\* (parent = 0, which is also HookContext::new): all cells are new
build(parent) ==
    [contexts |-> Append(ctx.contexts,
            [shared_state |-> Len(ctx.shared_state) + 1,
             typed_storage |-> Len(ctx.typed_storage) + 1,
             cancelled |-> Len(ctx.cancelled) + 1,
             parent |-> parent, made |-> "build"]),
     shared_state |-> Append(ctx.shared_state, EmptyMap),
     typed_storage |-> Append(ctx.typed_storage, EmptyMap),
     cancelled |-> Append(ctx.cancelled, FALSE)]

\* mutant: the child shares the typed storage too
create_child_sharing_all(c) ==
    [ctx EXCEPT !.contexts = Append(@,
            [shared_state |-> ctx.contexts[c].shared_state,
             typed_storage |-> ctx.contexts[c].typed_storage,
             cancelled |-> ctx.contexts[c].cancelled,
             parent |-> c, made |-> "create_child"])]

create_child(c) ==
    [ctx EXCEPT !.contexts = Append(@,
            [shared_state |-> ctx.contexts[c].shared_state,
             typed_storage |-> Len(ctx.typed_storage) + 1,
             cancelled |-> ctx.contexts[c].cancelled,
             parent |-> c, made |-> "create_child"]),
                !.typed_storage = Append(@, EmptyMap)]

cancel(c) == [ctx EXCEPT !.cancelled[ctx.contexts[c].cancelled] = TRUE]

set_state(c, key, value) ==
    [ctx EXCEPT !.shared_state[ctx.contexts[c].shared_state] =
                    MapInsert(@, key, value)]

set_typed(c, t, value) ==
    [ctx EXCEPT !.typed_storage[ctx.contexts[c].typed_storage] =
                    MapInsert(@, t, value)]

\* one call on a context: ctx becomes new and ret tells which call it was
ContextCall(op, c, new) ==
    /\ ctx' = new
    /\ ret' = [op |-> op, name |-> "", ctx |-> c, result |-> Ok(Unit)]
    /\ UNCHANGED <<calls, executions, entries, handlers, enabled, global_timeout,
                   history, spawned, active, events, fires, now, registered,
                   returned, rl_log>>

(***************************************************************************)
(* Handler combinators.  A handler is modelled by its name and the outcome *)
(* its execute returns, Ok(result) or Err(error), as the test handler of   *)
(* traits.rs is; a run gives the outcome and the calls made, each with the *)
(* context and payload the handler was given.                              *)
(***************************************************************************)
execute_handler(h, context, payload) ==
    [result |-> h.outcome,
     ran    |-> <<[handler |-> h.name, context |-> context,
                   payload |-> payload]>>]

\* a chain that runs the second handler whatever the first one's result is
ChainedHandler_execute_both(first, second, context, payload) ==
    LET r1 == execute_handler(first, context, payload)
        r2 == execute_handler(second, context, payload)
    IN  IF ~r1.result.ok THEN r1
        ELSE IF r1.result.value = Continue
             THEN [result |-> r2.result, ran |-> r1.ran \o r2.ran]
             ELSE [result |-> Ok(r1.result.value), ran |-> r1.ran \o r2.ran]

\* ChainedHandler::execute and AsyncChainedHandler::execute (the same body):
\* `?` returns the first handler's error, Continue hands over to the second
\* handler, any other result is returned as it is
ChainedHandler_execute(first, second, context, payload) ==
    LET r1 == execute_handler(first, context, payload)
        r2 == execute_handler(second, context, payload)
    IN  IF ~r1.result.ok THEN r1
        ELSE IF r1.result.value = Continue
             THEN [result |-> r2.result, ran |-> r1.ran \o r2.ran]
             ELSE [result |-> Ok(r1.result.value), ran |-> r1.ran]

\* what a call on a handler leaves alone: the state of the manager and of the
\* contexts; ret tells the call, its arguments and what it returned
ManagerVars ==
    <<calls, executions, entries, handlers, enabled, global_timeout, history,
      spawned, active, events, fires, now, registered, returned, rl_log, ctx>>

\* h1.chain(h2).execute(context, payload)
ChainExecute(o1, o2, context, payload) ==
    LET c == ChainedHandler_execute([name |-> "h1", outcome |-> o1],
                                    [name |-> "h2", outcome |-> o2],
                                    context, payload)
    IN  /\ ret' = [op |-> "chain", name |-> "ChainedHandler",
                    first |-> o1, second |-> o2,
                    context |-> context, payload |-> payload,
                    result |-> c.result, ran |-> c.ran]
        /\ UNCHANGED ManagerVars

(***************************************************************************)
(* The output parsers of the script handler and of the external-command    *)
(* handler.  A serde_json::Value is a record named after its variant; the  *)
(* texts are a fixed table, with what serde_json::from_str and str::trim   *)
(* make of each of them.                                                   *)
(***************************************************************************)
JString(s) == [string |-> s]
JNumber(n) == [number |-> n]
JObject(f) == [object |-> f]

\* Value::get(key): the field of an object, None on anything else
json_get(v, key) ==
    IF "object" \in DOMAIN v /\ key \in DOMAIN v.object
    THEN Some(v.object[key]) ELSE None

\* .and_then(|v| v.as_str())
as_str(o) ==
    IF o # None /\ "string" \in DOMAIN o[1] THEN Some(o[1].string) ELSE None

\* the texts that are JSON documents, each with the value it parses to
JsonTexts ==
    << [text  |-> "{\"type\": \"continue\"}",
        value |-> JObject([type |-> JString("continue")])],
       [text  |-> "{\"type\": \"continue\"}\n",
        value |-> JObject([type |-> JString("continue")])],
       [text  |-> "{\"type\": \"stop\"}",
        value |-> JObject([type |-> JString("stop")])],
       [text  |-> "{\"type\": \"stop\", \"data\": 1}",
        value |-> JObject([type |-> JString("stop"), data |-> JNumber(1)])],
       [text  |-> "{\"type\": \"replace\", \"data\": 1}",
        value |-> JObject([type |-> JString("replace"), data |-> JNumber(1)])],
       [text  |-> "{\"type\": \"replace\"}",
        value |-> JObject([type |-> JString("replace")])],
       [text  |-> "{\"type\": \"error\", \"message\": \"test error\"}",
        value |-> JObject([type |-> JString("error"),
                           message |-> JString("test error")])],
       [text  |-> "{\"type\": \"error\", \"message\": 5, \"code\": 1}",
        value |-> JObject([type |-> JString("error"), message |-> JNumber(5),
                           code |-> JNumber(1)])],
       [text  |-> "{\"type\": \"error\"}",
        value |-> JObject([type |-> JString("error")])],
       [text  |-> "{\"type\": \"other\", \"data\": 1}",
        value |-> JObject([type |-> JString("other"), data |-> JNumber(1)])],
       [text  |-> "{\"type\": 5}",
        value |-> JObject([type |-> JNumber(5)])],
       [text  |-> "{\"data\": 1}",
        value |-> JObject([data |-> JNumber(1)])],
       [text  |-> "5",
        value |-> JNumber(5)],
       [text  |-> "\"ok\"",
        value |-> JString("ok")] >>

\* the texts that are not JSON documents
PlainTexts ==
    {"", "ok", "ok\n", "  ", "continue", "continue\n", "hello world",
     "hello world\n", "{\"type\": \"continue\""}

Texts == {JsonTexts[i].text : i \in DOMAIN JsonTexts} \cup PlainTexts

\* str::trim on the texts of the table
trim(text) ==
    CASE text = "{\"type\": \"continue\"}\n" -> "{\"type\": \"continue\"}"
      [] text = "ok\n"                       -> "ok"
      [] text = "  "                         -> ""
      [] text = "continue\n"                 -> "continue"
      [] text = "hello world\n"              -> "hello world"
      [] OTHER                               -> text

\* a parser that takes whitespace around the document for an error
from_str_unskipped(text) ==
    IF \E i \in DOMAIN JsonTexts : JsonTexts[i].text = text /\ trim(text) = text
    THEN Ok(JsonTexts[CHOOSE i \in DOMAIN JsonTexts :
                          JsonTexts[i].text = text].value)
    ELSE Err("serde_json::Error")

\* serde_json::from_str::<Value>, which skips whitespace around the document
from_str(text) ==
    IF \E i \in DOMAIN JsonTexts : JsonTexts[i].text = text
    THEN Ok(JsonTexts[CHOOSE i \in DOMAIN JsonTexts :
                          JsonTexts[i].text = text].value)
    ELSE Err("serde_json::Error")

\* TclScriptHandler::parse_result; name is self.name
parse_result(name, tcl_result) ==
    LET parsed == from_str(tcl_result) IN
    IF parsed.ok
    THEN LET json_result == parsed.value
             result_type == as_str(json_get(json_result, "type"))
             data        == json_get(json_result, "data")
             message     == as_str(json_get(json_result, "message"))
             code        == json_get(json_result, "code")
         IN  IF result_type # None
             THEN CASE result_type = Some("continue") -> Ok(Continue)
                    [] result_type = Some("stop") -> Ok(Stop(data))
                    [] result_type = Some("replace") ->
                         IF data = None
                         THEN Err(execution_failed(name,
                                    "Replace result missing 'data' field"))
                         ELSE Ok(Replace(data[1]))
                    [] result_type = Some("error") ->
                         Ok([kind    |-> "Error",
                             message |-> IF message = None
                                         THEN "Unknown error" ELSE message[1],
                             details |-> IF code = None THEN None
                                         ELSE Some(JObject([code |-> code[1]]))])
                    [] OTHER -> Ok(Replace(json_result))
             ELSE Ok(Replace(json_result))
    ELSE IF trim(tcl_result) = "" \/ trim(tcl_result) = "ok"
         THEN Ok(Continue)
         ELSE Ok(Replace(JString(tcl_result)))

\* ExternalCommandHandler::parse_output; name is self.name.  The message of
\* a non-zero exit is format!("Command exited with code {}: {}", ..) for the
\* exit code 1 and the two stderr texts of the model.
parse_output(name, stdout, stderr, exit_code) ==
    IF exit_code # 0
    THEN Ok([kind    |-> "Error",
             message |-> IF stderr = ""
                         THEN "Command exited with code 1: "
                         ELSE "Command exited with code 1: error message",
             details |-> Some(JObject([exit_code |-> JNumber(exit_code),
                                       stderr    |-> JString(stderr)]))])
    ELSE
    LET parsed == from_str(stdout) IN
    IF parsed.ok
    THEN LET json_result == parsed.value
             result_type == as_str(json_get(json_result, "type"))
             data        == json_get(json_result, "data")
             message     == as_str(json_get(json_result, "message"))
             code        == json_get(json_result, "code")
         IN  IF result_type # None
             THEN CASE result_type = Some("continue") -> Ok(Continue)
                    [] result_type = Some("stop") -> Ok(Stop(data))
                    [] result_type = Some("replace") ->
                         IF data = None
                         THEN Err(execution_failed(name,
                                    "Replace result missing 'data' field"))
                         ELSE Ok(Replace(data[1]))
                    [] result_type = Some("error") ->
                         Ok([kind    |-> "Error",
                             message |-> IF message = None
                                         THEN "Unknown error" ELSE message[1],
                             details |-> IF code = None THEN None
                                         ELSE Some(JObject([code |-> code[1]]))])
                    [] OTHER -> Ok(Replace(json_result))
             ELSE Ok(Replace(json_result))
    ELSE LET output == trim(stdout) IN
         IF output = "" \/ output = "ok" \/ output = "continue"
         THEN Ok(Continue)
         ELSE Ok(Replace(JString(output)))

\* the script handler gets the reply tcl_result from the interpreter
ParseResult(name, tcl_result) ==
    /\ ret' = [op |-> "parse_result", name |-> name, text |-> tcl_result,
               result |-> parse_result(name, tcl_result)]
    /\ UNCHANGED ManagerVars

\* the command of the external-command handler has exited
ParseOutput(name, stdout, stderr, exit_code) ==
    /\ ret' = [op |-> "parse_output", name |-> name, text |-> stdout,
               stderr |-> stderr, exit_code |-> exit_code,
               result |-> parse_output(name, stdout, stderr, exit_code)]
    /\ UNCHANGED ManagerVars

(***************************************************************************)
(* The configuration document.  Of a document the model keeps one handler: *)
(* its name and its config, a HandlerTypeConfig.  The emitted form is the  *)
(* table the serializer writes, a map from keys to values; the enum is     *)
(* untagged, so the table of a config holds the fields of its variant and  *)
(* nothing that names the variant, and reading tries the variants in the   *)
(* order of their declaration, unknown keys being ignored.                 *)
(***************************************************************************)
default_command_timeout == 2000

TclScriptConfig(script, variables) ==
    [script |-> script, variables |-> variables]

ExternalCommandConfig(command, args, env, timeout_ms) ==
    [command |-> command, args |-> args, env |-> env, timeout_ms |-> timeout_ms]

BuiltInConfig(handler_name, config) ==
    [handler_name |-> handler_name, config |-> config]

JArray(a) == [array |-> a]

\* every value of the object v is a string, as HashMap<String, String> needs
StringMap(v) ==
    /\ "object" \in DOMAIN v
    /\ \A k \in DOMAIN v.object : "string" \in DOMAIN v.object[k]

\* #[derive(Serialize)] #[serde(untagged)] on HandlerTypeConfig, with the
\* #[serde(flatten)] of BuiltInConfig::config
serialize_config(c) ==
    IF "script" \in DOMAIN c
    THEN [script |-> JString(c.script), variables |-> JObject(c.variables)]
    ELSE IF "command" \in DOMAIN c
    THEN [command    |-> JString(c.command),
          args       |-> JArray([i \in DOMAIN c.args |-> JString(c.args[i])]),
          env        |-> JObject([k \in DOMAIN c.env |-> JString(c.env[k])]),
          timeout_ms |-> JNumber(c.timeout_ms)]
    ELSE MapInsert(c.config, "handler_name", JString(c.handler_name))

\* #[derive(Deserialize)] #[serde(untagged)] on HandlerTypeConfig: the first
\* variant the table can be read as, with the #[serde(default)] of the
\* fields that are missing
deserialize_config(t) ==
    IF /\ "script" \in DOMAIN t /\ "string" \in DOMAIN t.script
       /\ "variables" \in DOMAIN t => "object" \in DOMAIN t.variables
    THEN Ok(TclScriptConfig(t.script.string,
                IF "variables" \in DOMAIN t THEN t.variables.object
                                            ELSE EmptyMap))
    ELSE IF /\ "command" \in DOMAIN t /\ "string" \in DOMAIN t.command
            /\ "args" \in DOMAIN t =>
                   /\ "array" \in DOMAIN t.args
                   /\ \A i \in DOMAIN t.args.array :
                          "string" \in DOMAIN t.args.array[i]
            /\ "env" \in DOMAIN t => StringMap(t.env)
            /\ "timeout_ms" \in DOMAIN t => "number" \in DOMAIN t.timeout_ms
    THEN Ok(ExternalCommandConfig(t.command.string,
                IF "args" \in DOMAIN t
                THEN [i \in DOMAIN t.args.array |-> t.args.array[i].string]
                ELSE <<>>,
                IF "env" \in DOMAIN t
                THEN [k \in DOMAIN t.env.object |-> t.env.object[k].string]
                ELSE EmptyMap,
                IF "timeout_ms" \in DOMAIN t THEN t.timeout_ms.number
                                             ELSE default_command_timeout))
    ELSE IF "handler_name" \in DOMAIN t /\ "string" \in DOMAIN t.handler_name
    THEN Ok(BuiltInConfig(t.handler_name.string, MapRemove(t, "handler_name")))
    ELSE Err("toml::de::Error")

\* HooksConfig::to_toml, for the one handler of the document
to_toml(d) ==
    [name |-> JString(d.name), config |-> JObject(serialize_config(d.config))]

\* HooksConfig::from_toml
from_toml(t) ==
    LET config == deserialize_config(t.config.object) IN
    IF config.ok THEN Ok([name |-> t.name.string, config |-> config.value])
                 ELSE config

\* the configs of the documents that are written and read back
Configs ==
    << TclScriptConfig("return ok", EmptyMap),
       TclScriptConfig("return ok", [debug |-> JNumber(1)]),
       ExternalCommandConfig("/bin/test", <<>>, EmptyMap,
                             default_command_timeout),
       ExternalCommandConfig("/bin/test", <<"-v">>, [HOME |-> "/tmp"], 1000),
       BuiltInConfig("logging", EmptyMap),
       BuiltInConfig("logging", [level |-> JString("info")]),
       BuiltInConfig("validation", [script |-> JNumber(1)]),
       BuiltInConfig("validation", [script |-> JString("return ok")]),
       BuiltInConfig("validation", [script |-> JString("return ok"),
                                    level  |-> JString("info")]),
       BuiltInConfig("logging", [command |-> JString("/bin/test")]),
       BuiltInConfig("logging", [command    |-> JString("/bin/test"),
                                 timeout_ms |-> JString("soon")]) >>

\* a valid document (its handler's name is not empty) is emitted and the
\* emitted form is parsed
RoundTripConfig(d) ==
    /\ ret' = [op |-> "to_toml", name |-> d.name, doc |-> d,
               toml |-> to_toml(d), result |-> from_toml(to_toml(d))]
    /\ UNCHANGED ManagerVars

(***************************************************************************)
(* The string forms of a hook type.  A hook type is a built-in variant or  *)
(* Custom(x).  A string is the sequence of its pieces, a leading "custom:" *)
(* being a piece of its own, so that format!("custom:{}", x) is <<"custom:">>*)
(* \o x, starts_with("custom:") looks at the head and s[7..] is the tail.  *)
(***************************************************************************)
Builtin(v) == [builtin |-> v]
Custom(x)  == [custom |-> x]

all_builtin ==
    {"ServerStartup",
     "ServerShutdown",
     "ServerInitialized",
     "RequestReceived",
     "RequestProcessed",
     "ResponseSent",
     "ToolPreExecution",
     "ToolPostExecution",
     "ToolRegistered",
     "ToolRemoved",
     "TclPreExecution",
     "TclPostExecution",
     "TclError",
     "McpServerConnected",
     "McpServerDisconnected",
     "McpServerError",
     "SecurityCheck",
     "AccessDenied"}

\* impl Display for HookType: the Debug name of a built-in variant
to_string_display(t) ==
    IF "custom" \in DOMAIN t THEN <<"custom:">> \o t.custom ELSE <<t.builtin>>

\* HookType::to_string, the inherent method that `.to_string()` resolves to
to_string(t) ==
    CASE "custom" \in DOMAIN t -> <<"custom:">> \o t.custom
      [] t = Builtin("ServerStartup")         -> <<"server_startup">>
      [] t = Builtin("ServerShutdown")        -> <<"server_shutdown">>
      [] t = Builtin("ServerInitialized")     -> <<"server_initialized">>
      [] t = Builtin("RequestReceived")       -> <<"request_received">>
      [] t = Builtin("RequestProcessed")      -> <<"request_processed">>
      [] t = Builtin("ResponseSent")          -> <<"response_sent">>
      [] t = Builtin("ToolPreExecution")      -> <<"tool_pre_execution">>
      [] t = Builtin("ToolPostExecution")     -> <<"tool_post_execution">>
      [] t = Builtin("ToolRegistered")        -> <<"tool_registered">>
      [] t = Builtin("ToolRemoved")           -> <<"tool_removed">>
      [] t = Builtin("TclPreExecution")       -> <<"tcl_pre_execution">>
      [] t = Builtin("TclPostExecution")      -> <<"tcl_post_execution">>
      [] t = Builtin("TclError")              -> <<"tcl_error">>
      [] t = Builtin("McpServerConnected")    -> <<"mcp_server_connected">>
      [] t = Builtin("McpServerDisconnected") -> <<"mcp_server_disconnected">>
      [] t = Builtin("McpServerError")        -> <<"mcp_server_error">>
      [] t = Builtin("SecurityCheck")         -> <<"security_check">>
      [] t = Builtin("AccessDenied")          -> <<"access_denied">>

\* HookType::from_string
from_string(s) ==
    CASE
         s = <<"server_startup">>          -> Ok(Builtin("ServerStartup"))
      [] s = <<"server_shutdown">>         -> Ok(Builtin("ServerShutdown"))
      [] s = <<"server_initialized">>      -> Ok(Builtin("ServerInitialized"))
      [] s = <<"request_received">>        -> Ok(Builtin("RequestReceived"))
      [] s = <<"request_processed">>       -> Ok(Builtin("RequestProcessed"))
      [] s = <<"response_sent">>           -> Ok(Builtin("ResponseSent"))
      [] s = <<"tool_pre_execution">>      -> Ok(Builtin("ToolPreExecution"))
      [] s = <<"tool_post_execution">>     -> Ok(Builtin("ToolPostExecution"))
      [] s = <<"tool_registered">>         -> Ok(Builtin("ToolRegistered"))
      [] s = <<"tool_removed">>            -> Ok(Builtin("ToolRemoved"))
      [] s = <<"tcl_pre_execution">>       -> Ok(Builtin("TclPreExecution"))
      [] s = <<"tcl_post_execution">>      -> Ok(Builtin("TclPostExecution"))
      [] s = <<"tcl_error">>               -> Ok(Builtin("TclError"))
      [] s = <<"mcp_server_connected">>    -> Ok(Builtin("McpServerConnected"))
      [] s = <<"mcp_server_disconnected">> -> Ok(Builtin("McpServerDisconnected"))
      [] s = <<"mcp_server_error">>        -> Ok(Builtin("McpServerError"))
      [] s = <<"security_check">>          -> Ok(Builtin("SecurityCheck"))
      [] s = <<"access_denied">>           -> Ok(Builtin("AccessDenied"))
      [] Len(s) >= 1 /\ Head(s) = "custom:" -> Ok(Custom(Tail(s)))
      [] OTHER -> Err("Invalid hook type")

\* the names given to custom hook types, and the strings that are parsed
CustomNames == {<<>>, <<"test">>, <<"server_startup">>, <<"custom:", "test">>}

TypeStrings ==
    {to_string(Builtin(v)) : v \in all_builtin}
        \cup {<<"custom:">> \o x : x \in CustomNames}
        \cup {<<>>, <<"ServerStartup">>, <<"Server_Startup">>,
              <<"invalid_hook_type">>, <<"Custom:", "test">>, <<"test">>}

\* t.to_string() and HookType::from_string of the result
HookTypeToString(t) ==
    /\ ret' = [op |-> "to_string", name |-> "", hook_type |-> t,
               text |-> to_string(t), result |-> from_string(to_string(t))]
    /\ UNCHANGED ManagerVars

\* HookType::from_string(s), as handle_hook_add does for each name given
HookTypeFromString(s) ==
    /\ ret' = [op |-> "from_string", name |-> "", text |-> s,
               result |-> from_string(s)]
    /\ UNCHANGED ManagerVars

(***************************************************************************)
(* HookManager::new.                                                       *)
(***************************************************************************)
Init ==
    /\ entries = EmptyMap
    /\ handlers = EmptyMap
    /\ enabled = TRUE
    /\ global_timeout = DefaultTimeout
    /\ history = <<>>
    /\ spawned = EmptyBag
    /\ active = EmptyMap
    /\ events = [f \in Fires |-> <<>>]
    /\ fires = [f \in Fires |-> IdleFire]
    /\ now = 0
    /\ ret = NoCall
    /\ registered = <<>>
    /\ returned = [f \in Fires |-> <<>>]
    /\ rl_log = [n \in Names |-> EmptyLog]
    /\ calls = [c \in Callers |-> IdleCall]
    /\ executions = 0
    /\ ctx = NoContexts

(***************************************************************************)
(* The specifications below run a spawned history task before the next     *)
(* step of any other thread (Quiet).  HistoryTask reads and writes only    *)
(* history and spawned and leaves their joint size unchanged, so it        *)
(* commutes with every other action; the order is one every schedule of    *)
(* the other threads can be reordered to.                                  *)
(***************************************************************************)
Quiet == spawned = EmptyBag

TypeLists ==
    {<<>>} \cup {<<t>> : t \in HookTypes} \cup {<<t, u>> : t, u \in HookTypes}
HandlerErrors == {execution_failed(h, m) : h \in Handlers, m \in Messages}

(***************************************************************************)
(* Spec: the registry.  Name a on every list of at most two hook types,    *)
(* name b on one, registry calls interleaved with one fire whose handlers  *)
(* all Continue.                                                           *)
(***************************************************************************)
Next ==
    \/ Quiet /\ \E ts \in TypeLists, h \in Handlers, p \in {HIGH, NORMAL} :
                    Register("a", ts, h, p)
    \/ Quiet /\ \E p \in {HIGH, NORMAL} :
                    Register("b", <<"request_received">>, "h1", p)
    \/ Quiet /\ \E n \in {"a", "b"} : Unregister(n)
    \/ Quiet /\ \E t \in HookTypes : FireStart(1, t, 0)
    \/ Quiet /\ FireNext(1, TRUE)
    \/ Quiet /\ FireEnd(1)
    \/ Quiet /\ HandlerReturns(1, Continue)
    \/ HistoryTask

Spec == Init /\ [][Next]_vars

(***************************************************************************)
(* SpecOrder: three names registered on one hook type in any order and     *)
(* with any of three priorities, and one fire.                             *)
(***************************************************************************)
NextOrder ==
    \/ Quiet /\ \E n \in Names, p \in {HIGH, NORMAL, LOW} :
                    Register(n, <<"request_received">>, "h1", p)
    \/ Quiet /\ \E n \in Names : Unregister(n)
    \/ Quiet /\ FireStart(1, "request_received", 0)
    \/ Quiet /\ FireNext(1, TRUE)
    \/ Quiet /\ FireEnd(1)
    \/ Quiet /\ HandlerReturns(1, Continue)
    \/ HistoryTask

SpecOrder == Init /\ [][NextOrder]_vars

(***************************************************************************)
(* SpecFlow: up to three handlers on one hook type and one fire, each      *)
(* execution ending in any ExecutionResult or in a handler error.          *)
(***************************************************************************)
NextFlow ==
    \/ Quiet /\ \E n \in Names : Register(n, <<"request_received">>, "h1", NORMAL)
    \/ Quiet /\ \E d \in Data : FireStart(1, "request_received", d)
    \/ Quiet /\ \E sr \in BOOLEAN : FireNext(1, sr)
    \/ Quiet /\ FireEnd(1)
    \/ Quiet /\ \E r \in ExecutionResults : HandlerReturns(1, r)
    \/ Quiet /\ \E e \in HandlerErrors : HandlerFails(1, e)
    \/ HistoryTask

SpecFlow == Init /\ [][NextFlow]_vars

(***************************************************************************)
(* SpecTimeout: the clock runs while two handlers execute under a global   *)
(* timeout of one or two ticks (or the default); a handler may give up on  *)
(* its own before that, with the Timeout error of its own timeout_ms, as   *)
(* the external-command handler does.                                      *)
(***************************************************************************)
NextTimeout ==
    \/ Quiet /\ \E n \in {"a", "b"} : Register(n, <<"request_received">>, "h1", NORMAL)
    \/ Quiet /\ \E d \in 1..2 : SetGlobalTimeout(d)
    \/ Quiet /\ FireStart(1, "request_received", 0)
    \/ Quiet /\ FireNext(1, TRUE)
    \/ Quiet /\ FireEnd(1)
    \/ Quiet /\ HandlerReturns(1, Continue)
    \/ Quiet /\ HandlerTimesOut(1)
    \/ Quiet /\ \E d \in 1..2 : HandlerFails(1, timeout_error(fires[1].handler, d))
    \/ Quiet /\ Tick
    \/ HistoryTask

SpecTimeout == Init /\ [][NextTimeout]_vars

(***************************************************************************)
(* SpecRate: the clock runs between the fires of one rate-limited handler. *)
(***************************************************************************)
NextRate ==
    \/ Quiet /\ Register("a", <<"request_received">>, "h1", NORMAL)
    \/ Quiet /\ \E m \in 0..2, w \in 1..2 : SetRateLimit("a", m, w)
    \/ Quiet /\ FireStart(1, "request_received", 0)
    \/ Quiet /\ \E sr \in BOOLEAN : FireNext(1, sr)
    \/ Quiet /\ FireEnd(1)
    \/ Quiet /\ HandlerReturns(1, Continue)
    \/ Quiet /\ FireReturn(1)
    \/ Quiet /\ Tick
    \/ HistoryTask

SpecRate == Init /\ [][NextRate]_vars

(***************************************************************************)
(* SpecConc: two callers register and unregister name a on one hook type,  *)
(* step by step, while a fire of that hook type runs.                      *)
(***************************************************************************)
NextConc ==
    \/ Quiet /\ \E c \in Callers :
                    RegisterCheck(c, "a", <<"request_received">>, "h1", NORMAL)
    \/ Quiet /\ \E c \in Callers : RegisterInsert(c)
    \/ Quiet /\ \E c \in Callers : RegisterPush(c)
    \/ Quiet /\ \E c \in Callers : RegisterReturn(c)
    \/ Quiet /\ \E c \in Callers : UnregisterRemove(c, "a")
    \/ Quiet /\ \E c \in Callers : UnregisterRetain(c)
    \/ Quiet /\ \E c \in Callers : UnregisterReturn(c)
    \/ Quiet /\ FireStart(1, "request_received", 0)
    \/ Quiet /\ FireNext(1, TRUE)
    \/ Quiet /\ FireEnd(1)
    \/ Quiet /\ HandlerReturns(1, Continue)
    \/ HistoryTask

SpecConc == Init /\ [][NextConc]_vars

(***************************************************************************)
(* SpecPar: two fires of one hook type at once over two handlers that may  *)
(* be disabled, decline to run, succeed (also replacing the data) or fail; *)
(* between fires the engine may be disabled and enabled.                   *)
(***************************************************************************)
NextPar ==
    \/ Quiet /\ \E n \in {"a", "b"} : Register(n, <<"request_received">>, "h1", NORMAL)
    \/ Quiet /\ \E n \in {"a", "b"}, v \in BOOLEAN : SetHandlerEnabled(n, v)
    \/ Quiet /\ \E v \in BOOLEAN : SetEnabled(v)
    \/ Quiet /\ \E f \in Fires : FireStart(f, "request_received", 0)
    \/ Quiet /\ \E f \in Fires, sr \in BOOLEAN : FireNext(f, sr)
    \/ Quiet /\ \E f \in Fires : FireEnd(f)
    \/ Quiet /\ \E f \in Fires, r \in {Continue, Replace(1)} : HandlerReturns(f, r)
    \/ Quiet /\ \E f \in Fires : HandlerFails(f, execution_failed("a", "bad input"))
    \/ HistoryTask

SpecPar == Init /\ [][NextPar]_vars

(***************************************************************************)
(* SpecStats: the clock runs while two callers fire one handler, which may *)
(* get disabled or rate limited, decline to run, succeed or fail.          *)
(***************************************************************************)
NextStats ==
    \/ Quiet /\ Register("a", <<"request_received">>, "h1", NORMAL)
    \/ Quiet /\ SetHandlerEnabled("a", FALSE)
    \/ Quiet /\ SetRateLimit("a", 1, 2)
    \/ Quiet /\ \E f \in Fires : FireStart(f, "request_received", 0)
    \/ Quiet /\ \E f \in Fires, sr \in BOOLEAN : FireNext(f, sr)
    \/ Quiet /\ \E f \in Fires : FireEnd(f)
    \/ Quiet /\ \E f \in Fires : HandlerReturns(f, Continue)
    \/ Quiet /\ \E f \in Fires : HandlerFails(f, execution_failed("a", "bad input"))
    \/ Quiet /\ Tick
    \/ HistoryTask

SpecStats == Init /\ [][NextStats]_vars

(***************************************************************************)
(* SpecMean: the clock runs while one caller fires one handler again and   *)
(* again, each execution taking its own time and succeeding or failing.    *)
(***************************************************************************)
NextMean ==
    \/ Quiet /\ Register("a", <<"request_received">>, "h1", NORMAL)
    \/ Quiet /\ FireStart(1, "request_received", 0)
    \/ Quiet /\ FireNext(1, TRUE)
    \/ Quiet /\ FireEnd(1)
    \/ Quiet /\ FireReturn(1)
    \/ Quiet /\ HandlerReturns(1, Continue)
    \/ Quiet /\ HandlerFails(1, execution_failed("a", "bad input"))
    \/ Quiet /\ Tick
    \/ HistoryTask

SpecMean == Init /\ [][NextMean]_vars

(***************************************************************************)
(* SpecNested: a handler that holds the manager (handlers are              *)
(* Arc<dyn AsyncHookHandler>, the manager an Arc<HookManager>) and fires a *)
(* hook on it from its execute.  Fire 1 is the host's call; fire 2 is the  *)
(* call made by the handler fire 1 is suspended in, so fire 2 runs inside  *)
(* the future that fire 1's timeout polls: the handler returns after       *)
(* fire 2 has, and the timer of fire 1 is looked at only when that future  *)
(* is suspended, never while it waits for a lock of the entry map.         *)
(***************************************************************************)
NestedFireStart(hook_type, data) ==
    /\ fires[1].pc = "awaiting"
    /\ FireStart(2, hook_type, data)

NestedFireNext ==
    /\ fires[1].pc = "awaiting"
    /\ FireNext(2, TRUE)

\* the handler of fire 1 completes: it made no call, or its call has returned
OuterHandlerReturns ==
    /\ fires[2].pc \in {"idle", "done"}
    /\ HandlerReturns(1, Continue)

\* the timer of fire 1 wins while the handler waits for something else
OuterHandlerTimesOut ==
    /\ fires[2].pc \in {"idle", "done"}
    /\ HandlerTimesOut(1)

\* the timer of fire 1 wins while the nested fire is suspended in its own
\* handler: the handler's future is dropped and the nested call with it, its
\* RefMut released and its handler left in the active executions
OuterHandlerTimesOutDropping ==
    /\ fires[1].pc = "awaiting"
    /\ fires[2].pc = "awaiting"
    /\ now - fires[1].start >= global_timeout
    /\ LET name == fires[1].handler
           duration == now - fires[1].start
       IN  /\ entries' = [entries EXCEPT ![name].stats =
                    record_failure(@, duration, now)]
           /\ events' = [events EXCEPT ![1] = Append(@, Event(name, "Failed"))]
           /\ active' = remove_active(name)
           /\ spawned' = spawned (+) SetToBag({HistoryEntry(
                    fires[1].hook_type, name, duration, "timeout")})
           /\ returned' = [returned EXCEPT ![1] = Append(@, Outcome(name, Elapsed))]
           /\ fires' = [fires EXCEPT ![1] = Returned(1, Err(TimeoutError(name))),
                                     ![2] = IdleFire]
    /\ ret' = NoCall
    /\ executions' = executions + 1
    /\ UNCHANGED <<calls, ctx, handlers, enabled, global_timeout, history, now, registered,
                   rl_log>>

\* the steps of the two calls and of their handlers
NestedSteps ==
    \/ FireNext(1, TRUE)
    \/ FireEnd(1)
    \/ \E t \in HookTypes : NestedFireStart(t, 0)
    \/ NestedFireNext
    \/ FireEnd(2)
    \/ HandlerReturns(2, Continue)
    \/ HandlerTimesOut(2)
    \/ OuterHandlerReturns
    \/ OuterHandlerTimesOut
    \/ OuterHandlerTimesOutDropping

NextNested ==
    \/ Register("a", <<"request_received">>, "h1", NORMAL)
    \/ Register("b", <<"tool_pre_execution">>, "h1", NORMAL)
    \/ Unregister("b")
    \/ SetHandlerEnabled("b", FALSE)
    \/ SetRateLimit("b", 1, 1)
    \/ SetGlobalTimeout(1)
    \/ FireStart(1, "request_received", 0)
    \/ NestedSteps
    \/ Tick

SpecNested == Init /\ [][NextNested]_vars

(***************************************************************************)
(* SpecLive: the clock runs while one fire executes two handlers, which    *)
(* succeed, fail or are cut off by the global timeout; the tasks spawned   *)
(* by record_history run whenever the runtime schedules them, and the      *)
(* runtime does schedule a task that is ready.                             *)
(***************************************************************************)
NextLive ==
    \/ \E n \in {"a", "b"} : Register(n, <<"request_received">>, "h1", NORMAL)
    \/ SetGlobalTimeout(1)
    \/ FireStart(1, "request_received", 0)
    \/ FireNext(1, TRUE)
    \/ FireEnd(1)
    \/ HandlerReturns(1, Continue)
    \/ \E n \in {"a", "b"} : HandlerFails(1, execution_failed(n, "bad input"))
    \/ HandlerTimesOut(1)
    \/ Tick
    \/ HistoryTask

SpecLive == Init /\ [][NextLive]_vars /\ WF_vars(HistoryTask)

(***************************************************************************)
(* SpecHistory: a manager whose earlier executions, of a and b in turn,    *)
(* have all but filled or filled the history, and on which every handler   *)
(* has since been unregistered; executions counts from there on.  Two      *)
(* handlers are registered and one fire runs them; the tasks spawned by    *)
(* record_history run whenever the runtime schedules them.                 *)
(***************************************************************************)
FilledHistory(len) ==
    [i \in 1..len |->
        HistoryEntry("request_received", IF i % 2 = 1 THEN "a" ELSE "b", 0, "success")]

InitHistory ==
    /\ entries = EmptyMap
    /\ handlers = EmptyMap
    /\ enabled = TRUE
    /\ global_timeout = DefaultTimeout
    /\ \E len \in (max_history - 1)..max_history : history = FilledHistory(len)
    /\ spawned = EmptyBag
    /\ active = EmptyMap
    /\ events = [f \in Fires |-> <<>>]
    /\ fires = [f \in Fires |-> IdleFire]
    /\ now = 0
    /\ ret = NoCall
    /\ registered = <<>>
    /\ returned = [f \in Fires |-> <<>>]
    /\ rl_log = [n \in Names |-> EmptyLog]
    /\ calls = [c \in Callers |-> IdleCall]
    /\ executions = 0
    /\ ctx = NoContexts

NextHistory ==
    \/ \E n \in {"a", "b"} : Register(n, <<"request_received">>, "h1", NORMAL)
    \/ FireStart(1, "request_received", 0)
    \/ FireNext(1, TRUE)
    \/ FireEnd(1)
    \/ HandlerReturns(1, Continue)
    \/ HandlerFails(1, execution_failed("b", "bad input"))
    \/ HistoryTask

SpecHistory == InitHistory /\ [][NextHistory]_vars

(***************************************************************************)
(* SpecCtx: up to MaxCtx contexts made by the builder (with or without a   *)
(* parent) or by create_child, cancelled and written in any order.         *)
(***************************************************************************)
NextCtx ==
    \/ /\ Len(ctx.contexts) < MaxCtx
       /\ \E p \in 0..Len(ctx.contexts) : ContextCall("build", p, build(p))
    \/ /\ Len(ctx.contexts) < MaxCtx
       /\ \E c \in 1..Len(ctx.contexts) :
            ContextCall("create_child", c, create_child(c))
    \/ \E c \in 1..Len(ctx.contexts) : ContextCall("cancel", c, cancel(c))
    \/ \E c \in 1..Len(ctx.contexts), v \in 1..2 :
            ContextCall("set_state", c, set_state(c, "key", v))
    \/ \E c \in 1..Len(ctx.contexts), v \in 1..2 :
            ContextCall("set_typed", c, set_typed(c, "T", v))

SpecCtx == Init /\ [][NextCtx]_vars

(***************************************************************************)
(* SpecHandlers: the handler combinators, the output parsers and the       *)
(* conversions of the configuration, called on every input of a bounded    *)
(* set.                                                                    *)
(***************************************************************************)
HandlerOutcomes ==
    {Ok(r) : r \in ExecutionResults} \cup {Err(e) : e \in HandlerErrors}

NextHandlers ==
    \/ \E o1 \in HandlerOutcomes, o2 \in HandlerOutcomes,
          c \in 1..2, p \in Data : ChainExecute(o1, o2, c, p)
    \/ \E n \in Handlers, t \in Texts : ParseResult(n, t)
    \/ \E n \in Handlers, t \in Texts, e \in {"", "error message"},
          x \in 0..1 : ParseOutput(n, t, e, x)
    \/ \E n \in Handlers, i \in DOMAIN Configs :
          RoundTripConfig([name |-> n, config |-> Configs[i]])
    \/ \E v \in all_builtin : HookTypeToString(Builtin(v))
    \/ \E x \in CustomNames : HookTypeToString(Custom(x))
    \/ \E t \in TypeStrings : HookTypeFromString(t)

SpecHandlers == Init /\ [][NextHandlers]_vars

(***************************************************************************)
(* What the claims read off a state.                                       *)
(***************************************************************************)
ListOf(t) == IF t \in DOMAIN handlers THEN handlers[t] ELSE <<>>

Handler(e) == e.handler
RECURSIVE MapHandler(_)
MapHandler(evs) ==
    IF evs = <<>> THEN <<>> ELSE <<Handler(Head(evs))>> \o MapHandler(Tail(evs))

\* the handlers of the PreExecution events of fire f, in order
PreNames(f) ==
    MapHandler(SelectSeq(events[f], LAMBDA e : e.phase = "PreExecution"))

SkippedCount(f) ==
    Len(SelectSeq(events[f], LAMBDA e : e.phase = "Skipped"))

\* the position of n in the registration order
RegIndex(n) == CHOOSE i \in 1..Len(registered) : registered[i] = n

\* x runs before y: smaller priority value, or equal priority and registered
\* no later
Before(x, y) ==
    \/ entries[x].priority < entries[y].priority
    \/ /\ entries[x].priority = entries[y].priority
       /\ RegIndex(x) <= RegIndex(y)

IsRateLimitError(r) ==
    IsSome(r) /\ ~Unwrap(r).ok /\ Unwrap(r).error.kind = "RateLimitExceeded"

\* how many names of its snapshot fire f has dealt with
Decided(f) ==
    IF fires[f].idx > Len(fires[f].names) THEN Len(fires[f].names)
    ELSE IF fires[f].pc = "done" THEN fires[f].idx
    ELSE fires[f].idx - 1

\* how many of them it found unregistered and passed over
PassedOver(f) ==
    Decided(f) - Len(returned[f]) - SkippedCount(f)
        - (IF IsRateLimitError(fires[f].result) THEN 1 ELSE 0)

\* the events of fire f come in blocks Pre, Executing, (Post | Failed) of one
\* handler: a handler is started only when the one before it has ended
OneAtATime(f) ==
    \A i \in 1..Len(events[f]) :
        events[f][i].phase = "PreExecution" =>
            /\ i + 1 <= Len(events[f])
            /\ events[f][i + 1] = Event(events[f][i].handler, "Executing")
            /\ i + 2 <= Len(events[f]) =>
                    /\ events[f][i + 2].phase \in {"PostExecution", "Failed"}
                    /\ events[f][i + 2].handler = events[f][i].handler

(***************************************************************************)
(* C1.  In one fire of hook type T (whose list is still the one the fire   *)
(* snapshotted) the handlers are executed one at a time, in ascending      *)
(* priority value whatever the order of registration, equal priorities in  *)
(* registration order; the PreExecution events follow that order, and a    *)
(* fire that ran to the end of the list executed every handler on it.      *)
(***************************************************************************)
C1_PriorityOrder ==
    \A f \in Fires :
        (fires[f].pc # "idle" /\ fires[f].names = ListOf(fires[f].hook_type)) =>
            LET pre == PreNames(f)
            IN  /\ \A i, j \in 1..Len(pre) : i < j => Before(pre[i], pre[j])
                /\ OneAtATime(f)
                /\ (fires[f].pc = "done" /\ PassedOver(f) = 0 /\ SkippedCount(f) = 0)
                        => pre = fires[f].names

\* three handlers ran: the first was registered last, the other two tie
C1_Witness ==
    /\ fires[1].pc = "done"
    /\ fires[1].names = ListOf(fires[1].hook_type)
    /\ Len(PreNames(1)) = 3
    /\ PreNames(1) = fires[1].names
    /\ entries[PreNames(1)[1]].priority < entries[PreNames(1)[2]].priority
    /\ entries[PreNames(1)[2]].priority = entries[PreNames(1)[3]].priority
    /\ RegIndex(PreNames(1)[1]) > RegIndex(PreNames(1)[3])
    /\ PreNames(1)[2] = "c" /\ PreNames(1)[3] = "a"

(***************************************************************************)
(* What the claims about the result of a fire read off a state.            *)
(***************************************************************************)
Last(s) == s[Len(s)]

\* the value of the last Replace among the outcomes, the input if there is none
ReplaceChain(outs, input) ==
    LET at == {i \in 1..Len(outs) : outs[i].result.kind = "Replace"}
    IN  IF at = {} THEN input
        ELSE outs[CHOOSE i \in at : \A j \in at : j <= i].result.data

ReturnedOk(f) ==
    fires[f].pc = "done" /\ IsSome(fires[f].result) /\ Unwrap(fires[f].result).ok

\* fire f has stopped at the name of its snapshot it reached, and a handler
\* registered and enabled follows it on the snapshot
LaterHandlerWaits(f) ==
    /\ fires[f].idx < Len(fires[f].names)
    /\ \A i \in (fires[f].idx + 1)..Len(fires[f].names) :
            /\ fires[f].names[i] \in DOMAIN entries
            /\ entries[fires[f].names[i]].enabled

(***************************************************************************)
(* C2.  A fire that returns without error returns the data of the Stop it  *)
(* ended on if that Stop carries data, otherwise the value of the last     *)
(* Replace of the fire, otherwise its input; while the fire runs its       *)
(* current data is the last Replace or the input, so Continue and Retry    *)
(* leave it alone, and after a Continue, Retry or Replace the fire goes on *)
(* to the next name of its list (it returns only at the end of the list).  *)
(***************************************************************************)
C2_ReturnedData ==
    \A f \in Fires :
        LET outs  == returned[f]
            chain == ReplaceChain(outs, fires[f].input)
        IN  /\ fires[f].pc \in {"ready", "awaiting"} => fires[f].data = chain
            /\ ReturnedOk(f) =>
                    Unwrap(fires[f].result).value =
                        IF /\ outs # <<>>
                           /\ Last(outs).result.kind = "Stop"
                           /\ IsSome(Last(outs).result.data)
                        THEN Unwrap(Last(outs).result.data)
                        ELSE chain
            /\ (/\ fires[f].pc = "done"
                /\ outs # <<>>
                /\ Last(outs).result.kind \in {"Continue", "Retry", "Replace"})
                    => ReturnedOk(f) /\ fires[f].idx > Len(fires[f].names)

\* Replace(1), Replace(2), Stop without data, on input 0: the fire returns 2
C2_Witness ==
    /\ ReturnedOk(1)
    /\ fires[1].input = 0
    /\ Len(returned[1]) = 3
    /\ returned[1][1].result = Replace(1)
    /\ returned[1][2].result = Replace(2)
    /\ returned[1][3].result = Stop(None)
    /\ Unwrap(fires[1].result).value = 2

(***************************************************************************)
(* C3.  A Stop (with or without data) ends the fire at once and with       *)
(* success: it is the last outcome of the fire, the fire has returned Ok,  *)
(* and the last lifecycle event of the fire is the PostExecution of the    *)
(* handler that stopped it: no event of any kind follows for a later       *)
(* handler, and no more handlers were started than have an outcome.        *)
(***************************************************************************)
C3_StopShortCircuit ==
    \A f \in Fires :
        \A i \in 1..Len(returned[f]) :
            returned[f][i].result.kind = "Stop" =>
                /\ i = Len(returned[f])
                /\ ReturnedOk(f)
                /\ events[f] # <<>>
                /\ Last(events[f]) = Event(returned[f][i].handler, "PostExecution")
                /\ Len(PreNames(f)) = Len(returned[f])
                /\ fires[f].names[fires[f].idx] = returned[f][i].handler

\* the first of three handlers stopped the fire; the other two are
\* registered and enabled, and the fire has no event for them
C3_Witness ==
    /\ fires[1].pc = "done"
    /\ Len(fires[1].names) = 3
    /\ fires[1].idx = 1
    /\ LaterHandlerWaits(1)
    /\ Len(returned[1]) = 1
    /\ returned[1][1].result.kind = "Stop"
    /\ events[1] = <<Event(fires[1].names[1], "PreExecution"),
                     Event(fires[1].names[1], "Executing"),
                     Event(fires[1].names[1], "PostExecution")>>

(***************************************************************************)
(* C4.  An Error result ends the fire: it is the last outcome, the fire    *)
(* has returned the error ExecutionFailed whose handler is the registered  *)
(* name of the handler that returned it and whose source is its message    *)
(* (an Err carries no data), and no handler was started after it.          *)
(***************************************************************************)
C4_ErrorAborts ==
    \A f \in Fires :
        \A i \in 1..Len(returned[f]) :
            returned[f][i].result.kind = "Error" =>
                /\ i = Len(returned[f])
                /\ fires[f].pc = "done"
                /\ fires[f].result = Some([ok |-> FALSE, error |->
                        [kind |-> "ExecutionFailed",
                         handler |-> fires[f].names[fires[f].idx],
                         source |-> returned[f][i].result.message]])
                /\ returned[f][i].handler = fires[f].names[fires[f].idx]
                /\ Len(PreNames(f)) = Len(returned[f])
                /\ Last(events[f]).handler = returned[f][i].handler

\* the second of three handlers returned Error("policy reject") after the
\* first had replaced the data; the third is registered and enabled
C4_Witness ==
    /\ fires[1].pc = "done"
    /\ Len(fires[1].names) = 3
    /\ fires[1].idx = 2
    /\ LaterHandlerWaits(1)
    /\ Len(returned[1]) = 2
    /\ returned[1][1].result.kind = "Replace"
    /\ returned[1][2].result = ErrorResult("policy reject")
    /\ ~Unwrap(fires[1].result).ok
    /\ Unwrap(fires[1].result).error.handler = fires[1].names[2]

AdmittedBetween(n, lo, hi) ==
    Cardinality({i \in 1..Len(rl_log[n].admitted) :
                    lo <= rl_log[n].admitted[i] /\ rl_log[n].admitted[i] <= hi})

\* how many of them are younger than window at the present moment
AdmittedInside(n, window) ==
    Cardinality({i \in 1..Len(rl_log[n].admitted) :
                    now - rl_log[n].admitted[i] < window})

\* fire f stands before the rate-limit check of an enabled handler
AtRateLimit(f) ==
    /\ fires[f].pc = "ready"
    /\ fires[f].idx <= Len(fires[f].names)
    /\ fires[f].names[fires[f].idx] \in DOMAIN entries
    /\ entries[fires[f].names[fires[f].idx]].enabled
    /\ IsSome(entries[fires[f].names[fires[f].idx]].rate_limit)

(***************************************************************************)
(* C6.  For a handler with rate limit (max_calls, window): every closed    *)
(* interval of time [t, t + window], whose length is window, holds at most *)
(* max_calls of the times at which the limiter admitted a fire.            *)
(***************************************************************************)
C6_AtMostMaxCallsPerWindow ==
    \A n \in DOMAIN entries :
        IsSome(entries[n].rate_limit) =>
            LET rl == Unwrap(entries[n].rate_limit)
            IN  \A t \in 0..MaxTime :
                    AdmittedBetween(n, t, t + rl.window) <= rl.max_calls

(***************************************************************************)
(* C7.  A fire that reaches the rate-limit check of handler h when         *)
(* max_calls (or more) admissions of h's limiter lie inside the window     *)
(* returns RateLimitExceeded{h, max_calls, window}, and h is not executed: *)
(* no lifecycle event, no change of h's statistics.  A fire that reaches   *)
(* the check when fewer lie inside the window (so, with max_calls > 0,     *)
(* whenever the window has elapsed since every admitted call) is admitted: *)
(* it goes on to should_run, and executes h unless that skips it.          *)
(***************************************************************************)
C7_DenyThenReadmit ==
    [][\A f \in Fires :
        (AtRateLimit(f) /\ fires'[f] # fires[f]) =>
            LET h  == fires[f].names[fires[f].idx]
                rl == Unwrap(entries[h].rate_limit)
                inside == AdmittedInside(h, rl.window)
            IN  IF inside >= rl.max_calls
                THEN /\ fires'[f].pc = "done"
                     /\ fires'[f].result = Some([ok |-> FALSE, error |->
                            [kind |-> "RateLimitExceeded", handler |-> h,
                             limit |-> rl.max_calls, window |-> rl.window]])
                     /\ events'[f] = events[f]
                     /\ entries'[h].stats = entries[h].stats
                     /\ returned'[f] = returned[f]
                     /\ rl_log'[h].admitted = rl_log[h].admitted
                ELSE /\ rl_log'[h].admitted = Append(rl_log[h].admitted, now)
                     /\ \/ /\ fires'[f].pc = "awaiting"
                           /\ fires'[f].handler = h
                           /\ events'[f] = events[f] \o
                                <<Event(h, "PreExecution"), Event(h, "Executing")>>
                        \/ /\ fires'[f].pc = "ready"
                           /\ events'[f] = Append(events[f], Event(h, "Skipped"))]_vars

\* limit (1, 2 ticks): admitted at 0, denied at 1, and at 2, the window
\* elapsed, admitted again and executing
C7_Witness ==
    /\ "a" \in DOMAIN entries
    /\ entries["a"].rate_limit = Some([max_calls |-> 1, window |-> 2, calls |-> <<2>>])
    /\ rl_log["a"].admitted = <<0, 2>>
    /\ rl_log["a"].denied = {1}
    /\ now = 2
    /\ fires[1].pc = "awaiting"
    /\ fires[1].handler = "a"
    /\ entries["a"].stats.total_executions = 1

(***************************************************************************)
(* What the claims about the registry read off a state.                    *)
(***************************************************************************)
Range(s) == {s[i] : i \in 1..Len(s)}

\* the tuples list_handlers reports for n
Listed(n) == {e \in list_handlers : e[1] = n}

Priorities == {HIGH, NORMAL}

(***************************************************************************)
(* C8.  A register call for a name that has an entry returns               *)
(* RegistrationFailed and changes nothing: the entries (handler, priority, *)
(* enabled flag, statistics, rate limit), the lists of the hook types and  *)
(* the fires in progress with their events are what they were.             *)
(***************************************************************************)
C8_DuplicateRegister ==
    [][\A n \in DOMAIN entries :
        (ret'.op = "register" /\ ret'.name = n) =>
            /\ ~ret'.result.ok
            /\ ret'.result.error.kind = "RegistrationFailed"
            /\ UNCHANGED <<entries, handlers, fires, events, active, returned,
                           history, spawned, enabled, global_timeout>>]_vars

\* the register call failed while a fire was in its loop, on an entry that
\* has run once and holds handler h2 at priority HIGH
C8_Witness ==
    /\ ret = [op |-> "register", name |-> "a",
              result |-> Err(RegistrationFailed("a"))]
    /\ fires[1].pc = "ready"
    /\ fires[1].idx = 2
    /\ "a" \in DOMAIN entries
    /\ entries["a"].handler = "h2"
    /\ entries["a"].priority = HIGH
    /\ entries["a"].stats.total_executions = 1

\* fire f, over with the list of its hook type while n is the only handler
\* registered, started n exactly once
ExecutedOnce(f, n) ==
    (/\ DOMAIN entries = {n}
     /\ fires[f].pc = "done"
     /\ fires[f].names = ListOf(fires[f].hook_type)
     /\ Contains(fires[f].names, n)
     /\ PassedOver(f) = 0)
        => PreNames(f) = <<n>>

\* the step is a successful register(n, ts, h, p), and after it list_handlers
\* reports n once: with the hook types of ts, priority p, enabled
RoundTrip(n, ts, h, p) ==
    (n \notin DOMAIN entries /\ Register(n, ts, h, p)) =>
        /\ ret'.result.ok
        /\ Listed(n)' = {<<n, Range(ts), p, TRUE>>}

(***************************************************************************)
(* C9.  After a successful register(n, Ts, h, p), for every list Ts:       *)
(* list_handlers reports n exactly once, with the hook types of Ts,        *)
(* priority p and enabled; and a fire on a hook type of n that ran over    *)
(* the list of that type, n being the only handler registered, started h   *)
(* exactly once.                                                           *)
(***************************************************************************)
C9_RegistrationRoundTrip ==
    [][/\ \A n \in Names :
            (ret'.op = "register" /\ ret'.name = n) =>
                \A ts \in TypeLists, h \in Handlers, p \in Priorities :
                    RoundTrip(n, ts, h, p)
       /\ \A f \in Fires, n \in Names : ExecutedOnce(f, n)']_vars

(***************************************************************************)
(* C10.  unregister of a name that has an entry removes the entry and the  *)
(* name from every list, so that list_handlers does not report it; a fire *)
(* starts a handler only if its name has an entry at that moment, so no    *)
(* fire executes the name until it is registered again.  unregister of a   *)
(* name without an entry returns HandlerNotFound and leaves entries and    *)
(* lists as they were.                                                     *)
(***************************************************************************)
C10_Unregister ==
    [][/\ \A n \in Names :
            (ret'.op = "unregister" /\ ret'.name = n) =>
                IF n \in DOMAIN entries
                THEN /\ ret'.result = Ok(Unit)
                     /\ n \notin DOMAIN entries'
                     /\ \A t \in DOMAIN handlers' : ~Contains(handlers'[t], n)
                     /\ Listed(n)' = {}
                ELSE /\ ret'.result = Err(HandlerNotFound(n))
                     /\ UNCHANGED <<entries, handlers>>
       /\ \A f \in Fires :
            (fires[f].pc = "ready" /\ fires'[f].pc = "awaiting") =>
                fires'[f].handler \in DOMAIN entries]_vars

\* a, registered on both hook types, is unregistered while the fire runs b,
\* the handler before it on the snapshot
C10_Witness ==
    /\ ret = [op |-> "unregister", name |-> "a", result |-> Ok(Unit)]
    /\ fires[1].pc = "awaiting"
    /\ fires[1].handler = "b"
    /\ fires[1].names = <<"b", "a">>
    /\ DOMAIN entries = {"b"}
    /\ DOMAIN handlers = HookTypes
    /\ \A t \in HookTypes : ~Contains(handlers[t], "a")

(***************************************************************************)
(* What the claims about concurrent callers read off a state.              *)
(***************************************************************************)
\* no register or unregister call is in progress
Quiescent == \A c \in Callers : calls[c].pc = "idle"

NoDuplicates(list) ==
    \A i, j \in 1..Len(list) : list[i] = list[j] => i = j

(***************************************************************************)
(* C11.  Whatever register, unregister and execute calls have run, also    *)
(* concurrently on the same name: once no registry call is in progress,    *)
(* every name on a list of a hook type has an entry.                       *)
(***************************************************************************)
C11_ListedNamesHaveEntries ==
    Quiescent =>
        \A t \in DOMAIN handlers : Range(handlers[t]) \subseteq DOMAIN entries

(***************************************************************************)
(* C12.  Whatever register calls have run, also concurrently with the same *)
(* name (so that only one of them may have succeeded): once no registry    *)
(* call is in progress, the name is on no list more than once.             *)
(***************************************************************************)
C12_UniqueName ==
    Quiescent => \A t \in DOMAIN handlers : NoDuplicates(handlers[t])

(***************************************************************************)
(* C13.  A fire works on the names it snapshotted when it started: the     *)
(* handler it is executing is not one that was registered on the fired     *)
(* hook type after the snapshot.  (A name is looked up again at its turn,  *)
(* so an entry registered in between under a snapshotted name is what the  *)
(* fire finds.)                                                            *)
(***************************************************************************)
C13_LateNotExecuted ==
    \A f \in Fires :
        (fires[f].pc = "awaiting" /\ fires[f].handler \in fires[f].late) =>
            ~Contains(ListOf(fires[f].hook_type), fires[f].handler)

(***************************************************************************)
(* C14.  No lock on an entry is held across a suspension: while a fire is  *)
(* suspended in the execute of a handler, set_handler_enabled,             *)
(* set_rate_limit and unregister on that handler can take their step.      *)
(***************************************************************************)
C14_NoLockAcrossAwait ==
    \A f \in Fires :
        fires[f].pc = "awaiting" =>
            /\ ENABLED SetHandlerEnabled(fires[f].handler, FALSE)
            /\ ENABLED SetRateLimit(fires[f].handler, 1, 1)
            /\ ENABLED Unregister(fires[f].handler)

(***************************************************************************)
(* C15.  Fires run in parallel, also on one handler: when a fire has       *)
(* reached a handler that another fire is executing (and the model's bound *)
(* on executions leaves room), it can go on to its own execution of that   *)
(* handler without waiting for the other one to finish.                    *)
(***************************************************************************)
C15_ParallelExecutions ==
    \A f, g \in Fires :
        (/\ f # g
         /\ fires[g].pc = "awaiting"
         /\ fires[f].pc = "ready"
         /\ fires[f].idx <= Len(fires[f].names)
         /\ fires[f].names[fires[f].idx] = fires[g].handler
         /\ executions < MaxExec) =>
            ENABLED FireNext(f, TRUE)

(***************************************************************************)
(* C16.  In every fire the events of one handler are Skipped alone, or     *)
(* Pre, then Executing, then one terminal event, Post or Failed, and       *)
(* nothing after it: an event has no earlier event of its handler if it is *)
(* Pre or Skipped, only the Pre if it is Executing, and only the Pre and   *)
(* the Executing if it is terminal.                                        *)
(***************************************************************************)
C16_Lifecycle ==
    \A f \in Fires : \A j \in 1..Len(events[f]) :
        LET Earlier == {events[f][i].phase : i \in
                            {i \in 1..(j - 1) :
                                events[f][i].handler = events[f][j].handler}}
            EarlierCount == Cardinality({i \in 1..(j - 1) :
                                events[f][i].handler = events[f][j].handler})
        IN  CASE events[f][j].phase \in {"PreExecution", "Skipped"} ->
                    EarlierCount = 0
              [] events[f][j].phase = "Executing" ->
                    EarlierCount = 1 /\ Earlier = {"PreExecution"}
              [] OTHER ->
                    EarlierCount = 2 /\ Earlier = {"PreExecution", "Executing"}

C18_Stats ==
    /\ [](\A n \in DOMAIN entries :
            LET s == entries[n].stats
            IN  /\ s.total_executions =
                        s.successful_executions + s.failed_executions
                /\ IsSome(s.average_duration) <=> s.total_executions > 0
                /\ IsSome(s.max_duration) <=> s.total_executions > 0
                /\ s.total_executions > 0 =>
                        Unwrap(s.max_duration) >= Unwrap(s.average_duration)
                /\ IsSome(s.last_execution) <=> s.total_executions > 0)
    /\ [][\A f \in Fires : \A n \in DOMAIN entries :
            (\/ events'[f] = Append(events[f], Event(n, "Skipped"))
             \/ /\ fires[f].pc = "ready"
                /\ fires'[f].pc = "done"
                /\ fires[f].idx <= Len(fires[f].names)
                /\ fires[f].names[fires[f].idx] = n)
            => /\ n \in DOMAIN entries'
               /\ entries'[n].stats = entries[n].stats]_vars

\* both fires have executed a, one at once and with success, the other for
\* two ticks and with a failure: the average is below the maximum
C18_Witness ==
    /\ \A f \in Fires : fires[f].pc = "done"
    /\ "a" \in DOMAIN entries
    /\ entries["a"].stats.successful_executions = 1
    /\ entries["a"].stats.failed_executions = 1
    /\ entries["a"].stats.average_duration = Some(1)
    /\ entries["a"].stats.max_duration = Some(2)

(***************************************************************************)
(* C19.  The history never holds more than 1000 records, and a record      *)
(* appended to a full history evicts the oldest one: a step that runs a    *)
(* spawned history task appends its record at the end and, if the history  *)
(* was full, drops the first record and no other; no other step changes    *)
(* the history.                                                            *)
(***************************************************************************)
C19_HistoryRing ==
    /\ [](Len(history) <= 1000)
    /\ [][\/ /\ history' = history
             /\ BagCardinality(spawned') >= BagCardinality(spawned)
          \/ \E e \in BagToSet(spawned) :
                /\ spawned' = spawned (-) SetToBag({e})
                /\ history' = IF Len(history) = 1000
                              THEN Append(Tail(history), e)
                              ELSE Append(history, e)]_vars

\* 999 records of a and b in turn, then two more: the first a is gone
C19_Witness ==
    /\ executions = 2
    /\ spawned = EmptyBag
    /\ Len(history) = 1000
    /\ history[1].handler = "b"
    /\ history[999].handler = "a"

(***************************************************************************)
(* C20.  get_history(n) returns at most n records, the newest first: once  *)
(* the history tasks have run, the records of the executions of a fire     *)
(* come in the reverse of the order in which the executions ended.         *)
(***************************************************************************)
C20_NewestFirst ==
    /\ \A n \in 0..MaxExec : Len(get_history(Some(n))) <= n
    /\ spawned = EmptyBag =>
        LET k == Len(returned[1])
            got == get_history(Some(k))
        IN  /\ Len(got) = k
            /\ \A i \in 1..k : got[i][1] = returned[1][k - i + 1].handler

(***************************************************************************)
(* C21.  While the engine is disabled no fire is in progress, and an       *)
(* execute call made then returns its input at once: it emits no event and *)
(* changes no entry (statistics, rate limit), no history record and no     *)
(* active execution.                                                       *)
(***************************************************************************)
C21_Disabled ==
    /\ [](~enabled => \A f \in Fires : fires[f].pc \in {"idle", "done"})
    /\ [][\A f \in Fires :
            (~enabled /\ fires[f].pc = "idle" /\ fires'[f].pc # "idle") =>
                /\ fires'[f].pc = "done"
                /\ fires'[f].result = Some(Ok(fires'[f].input))
                /\ events'[f] = <<>>
                /\ UNCHANGED <<entries, history, spawned, active, rl_log,
                               executions>>]_vars

\* handler a is registered and enabled; the engine is disabled and a fire of
\* a's hook type has returned its input before the loop (idx = 0), without
\* an event
C21_Witness ==
    /\ ~enabled
    /\ fires[1].pc = "done"
    /\ fires[1].idx = 0
    /\ fires[1].hook_type = "request_received"
    /\ fires[1].result = Some(Ok(0))
    /\ events[1] = <<>>
    /\ "a" \in DOMAIN entries
    /\ entries["a"].enabled
    /\ Contains(ListOf("request_received"), "a")
    /\ entries["a"].stats.total_executions = 0

(***************************************************************************)
(* C22.  set_handler_enabled sets the enabled flag of the entry to its     *)
(* value and changes nothing else.  A fire that comes to a disabled        *)
(* handler emits Skipped for it and goes on to the next name with its      *)
(* data, without an error and without a change to any entry, to the        *)
(* history or to the active executions; a fire that comes to an enabled    *)
(* handler without a rate limit starts its execution, or skips it because  *)
(* should_run said no.                                                     *)
(***************************************************************************)
C22_HandlerDisabled ==
    /\ [][(ret'.op = "set_handler_enabled" /\ ret'.result.ok) =>
            /\ ret'.name \in DOMAIN entries
            /\ entries' = [entries EXCEPT ![ret'.name].enabled = ret'.value]]_vars
    /\ [][\A f \in Fires :
            (/\ fires[f].pc = "ready"
             /\ fires'[f].pc # "ready" \/ fires'[f].idx # fires[f].idx
             /\ fires[f].idx <= Len(fires[f].names)
             /\ fires[f].names[fires[f].idx] \in DOMAIN entries) =>
                LET n == fires[f].names[fires[f].idx]
                IN  IF ~entries[n].enabled
                    THEN /\ events'[f] = Append(events[f], Event(n, "Skipped"))
                         /\ fires'[f] = [fires[f] EXCEPT !.idx = @ + 1]
                         /\ UNCHANGED <<entries, history, spawned, active,
                                        executions>>
                    ELSE \/ IsSome(entries[n].rate_limit)
                         \/ fires'[f].pc = "awaiting" /\ fires'[f].handler = n
                         \/ events'[f] = Append(events[f], Event(n, "Skipped"))]_vars

\* the first fire found a disabled and went on to b with the data it had;
\* a was enabled again and the second fire executes it
C22_Witness ==
    /\ fires[1].pc = "done"
    /\ fires[1].names = <<"b", "a">>
    /\ events[1] = <<Event("b", "PreExecution"), Event("b", "Executing"),
                     Event("b", "PostExecution"), Event("a", "Skipped")>>
    /\ fires[1].result = Some(Ok(1))
    /\ ret = NoCall
    /\ fires[2].pc = "awaiting"
    /\ fires[2].idx = 2
    /\ fires[2].handler = "a"
    /\ entries["a"].stats.total_executions = 0

(***************************************************************************)
(* C23.  The payload a handler is executed with carries the fire's input   *)
(* with the Replace results of the handlers executed before it in the fire *)
(* applied in order: the value of the last of them, or the input if there  *)
(* is none.                                                                *)
(***************************************************************************)
C23_Payload ==
    \A f \in Fires :
        fires[f].pc = "awaiting" =>
            LET at == {i \in 1..Len(returned[f]) :
                            returned[f][i].result.kind = "Replace"}
            IN  /\ at = {} => fires[f].payload = fires[f].input
                /\ \A i \in at :
                        (\A j \in at : j <= i) =>
                            fires[f].payload = returned[f][i].result.data

\* the third handler is executed with the second handler's Replace, the
\* first having replaced the input with another value
C23_Witness ==
    /\ fires[1].pc = "awaiting"
    /\ fires[1].idx = 3
    /\ fires[1].input = 0
    /\ Len(returned[1]) = 2
    /\ returned[1][1].result = Replace(2)
    /\ returned[1][2].result = Replace(1)
    /\ fires[1].payload = 1

(***************************************************************************)
(* C24.  A handler error ends the fire: it is the last outcome, no handler *)
(* was started after it, and the fire has returned the error               *)
(* ExecutionFailed whose handler is the name under which the failing       *)
(* handler was registered.                                                 *)
(***************************************************************************)
C24_HandlerErrorAborts ==
    \A f \in Fires :
        \A i \in 1..Len(returned[f]) :
            returned[f][i].result.kind = "HandlerError" =>
                /\ i = Len(returned[f])
                /\ Len(PreNames(f)) = Len(returned[f])
                /\ fires[f].pc = "done"
                /\ ~Unwrap(fires[f].result).ok
                /\ Unwrap(fires[f].result).error.kind = "ExecutionFailed"
                /\ Unwrap(fires[f].result).error.handler = returned[f][i].handler

(***************************************************************************)
(* C25.  When a validation handler rejects the data, the ExecutionFailed   *)
(* error the fire returns carries the handler's details: the code          *)
(* VALIDATION_FAILED and the list of the validation error messages.        *)
(***************************************************************************)
C25_ValidationDetails ==
    \A f \in Fires :
        \A i \in 1..Len(returned[f]) :
            (/\ returned[f][i].result.kind = "Error"
             /\ IsSome(returned[f][i].result.details)) =>
                /\ fires[f].pc = "done"
                /\ ~Unwrap(fires[f].result).ok
                /\ Unwrap(fires[f].result).error.kind = "ExecutionFailed"
                /\ "details" \in DOMAIN Unwrap(fires[f].result).error
                /\ Unwrap(fires[f].result).error.details =
                        Unwrap(returned[f][i].result.details)

(***************************************************************************)
(* C26.  Cancellation is shared along the parent link: a context with a    *)
(* parent, however it was made, is cancelled whenever its parent is.       *)
(* (cancel only ever sets the flag, so a cancelled context stays           *)
(* cancelled.)                                                             *)
(***************************************************************************)
C26_CancelVisibleToChild ==
    \A c \in 1..Len(ctx.contexts) :
        (ctx.contexts[c].parent # 0 /\ is_cancelled(ctx.contexts[c].parent))
            => is_cancelled(c)

(***************************************************************************)
(* C27.  A child made by create_child reads the same shared state as its   *)
(* parent, whichever of the two wrote it, but has type-indexed slots of    *)
(* its own: a set_typed on one of the two changes no get_typed of the      *)
(* other.                                                                  *)
(***************************************************************************)
C27_ChildContext ==
    /\ [](\A c \in 1..Len(ctx.contexts) :
            ctx.contexts[c].made = "create_child" =>
                get_state(c, "key") = get_state(ctx.contexts[c].parent, "key"))
    /\ [][ret'.op = "set_typed" =>
            \A c \in 1..Len(ctx.contexts) :
                (/\ ctx.contexts[c].made = "create_child"
                 /\ ret'.ctx \in {c, ctx.contexts[c].parent}) =>
                    \E d \in {c, ctx.contexts[c].parent} \ {ret'.ctx} :
                        get_typed(d, "T")' = get_typed(d, "T")]_vars

\* the child (2) has just written the state and the parent (1) reads it;
\* each has its own value in the slot of type T
C27_Witness ==
    /\ Len(ctx.contexts) >= 2
    /\ ctx.contexts[2].made = "create_child"
    /\ ctx.contexts[2].parent = 1
    /\ ret.op = "set_state"
    /\ ret.ctx = 2
    /\ get_state(1, "key") = Some(2)
    /\ get_typed(2, "T") = Some(1)
    /\ get_typed(1, "T") = Some(2)

\* C28: a chain runs its first handler; when that returns Continue it runs
\* the second handler on the same context and payload and returns the second
\* handler's outcome; on any other result, or on an error, of the first it
\* returns that and the second handler is not run.
C28_Chain ==
    ret.op = "chain" =>
        LET names == IF ret.first = Ok(Continue) THEN <<"h1", "h2">>
                                                 ELSE <<"h1">>
        IN  /\ ret.result = IF ret.first = Ok(Continue) THEN ret.second
                                                        ELSE ret.first
            /\ Len(ret.ran) = Len(names)
            /\ \A i \in 1..Len(names) :
                    /\ ret.ran[i].handler = names[i]
                    /\ ret.ran[i].context = ret.context
                    /\ ret.ran[i].payload = ret.payload

\* test_chained_handlers: Continue, then Stop(None)
C28_Witness ==
    /\ ret.op = "chain"
    /\ ret.first = Ok(Continue)
    /\ ret.second = Ok(Stop(None))
    /\ ret.result = Ok(Stop(None))
    /\ Len(ret.ran) = 2

\* what the script handler is said to make of a reply, where plain is the
\* text that is compared with "" and "ok" when the reply is not JSON
ReplyMaps(name, reply, plain, result) ==
    LET json == {i \in DOMAIN JsonTexts : JsonTexts[i].text = reply} IN
    IF json # {}
    THEN LET v       == JsonTexts[CHOOSE i \in json : TRUE].value
             type    == as_str(json_get(v, "type"))
             data    == json_get(v, "data")
             message == as_str(json_get(v, "message"))
         IN  /\ type = Some("continue") => result = Ok(Continue)
             /\ type = Some("stop") => result = Ok(Stop(data))
             /\ (type = Some("replace") /\ data # None) =>
                    result = Ok(Replace(data[1]))
             /\ (type = Some("replace") /\ data = None) =>
                    /\ ~result.ok
                    /\ result.error.kind = "ExecutionFailed"
                    /\ result.error.handler = name
             /\ type = Some("error") =>
                    /\ result.ok
                    /\ result.value.kind = "Error"
                    /\ message # None => result.value.message = message[1]
             /\ json_get(v, "type") = None => result = Ok(Replace(v))
    ELSE result = IF plain \in {"", "ok"} THEN Ok(Continue)
                                          ELSE Ok(Replace(JString(reply)))

\* C29 (as amended): a JSON reply whose type is continue, stop, replace or
\* error becomes Continue, Stop(data?), Replace(data) or Error(message), and
\* replace without data a handler error; a JSON reply without a type field
\* becomes Replace of the value; a reply that is not JSON becomes Continue
\* when it is empty or "ok" once the whitespace around it is trimmed, and
\* Replace of the whole reply string otherwise.
C29_ParseResult ==
    ret.op = "parse_result" =>
        ReplyMaps(ret.name, ret.text, trim(ret.text), ret.result)

\* C29 (as stated): the same, with Continue only for the replies that are
\* empty or "ok" as they are.
C29_ParseResultUntrimmed ==
    ret.op = "parse_result" =>
        ReplyMaps(ret.name, ret.text, ret.text, ret.result)

\* the reply "ok" followed by a newline has become Continue
C29_Witness ==
    /\ ret.op = "parse_result"
    /\ ret.text = "ok\n"
    /\ ret.result = Ok(Continue)

\* C30: with exit code 0 the external-command handler gives for a stdout text
\* the result the script handler gives for the same text as a reply.
C30_ParsersEquivalent ==
    (ret.op = "parse_output" /\ ret.exit_code = 0) =>
        ret.result = parse_result(ret.name, ret.text)


\* C31: parsing the emitted form of a valid document gives the document back,
\* with the variant and all the keys of its handler's config.
C31_ConfigRoundTrip ==
    ret.op = "to_toml" => ret.result = Ok(ret.doc)

C33_TimeoutRecorded ==
    [][\A f \in Fires :
        (/\ fires[f].pc = "awaiting"
         /\ fires'[f].pc = "done"
         /\ ~Unwrap(fires'[f].result).ok
         /\ Unwrap(fires'[f].result).error.kind = "Timeout") =>
            LET h == Unwrap(fires'[f].result).error.handler IN
            /\ h = fires[f].handler
            /\ entries'[h].stats.failed_executions =
                   entries[h].stats.failed_executions + 1
            /\ events'[f] = Append(events[f], Event(h, "Failed"))
            /\ \E d \in 0..MaxTime :
                   spawned' = spawned (+) SetToBag({HistoryEntry(
                       fires[f].hook_type, h, d, "timeout")})]_vars

\* C34: a disabled handler is skipped before its rate limit is looked at: the
\* limiter keeps its calls and the fire goes on.  An enabled handler's rate
\* limit is checked before its should_run is asked: with should_run false
\* the check still takes a slot of the window and Skipped is emitted, and
\* when the window is full the fire returns RateLimitExceeded and no Skipped
\* is emitted.
C34_CheckOrder ==
    [][\A f \in Fires :
        LET name == fires[f].names[fires[f].idx]
            rl   == Unwrap(entries[name].rate_limit)
            kept == RetainCalls(rl, now)
        IN  /\ (/\ \E sr \in BOOLEAN : FireNext(f, sr)
                /\ name \in DOMAIN entries
                /\ ~entries[name].enabled) =>
                    /\ entries' = entries
                    /\ fires'[f].pc = "ready"
                    /\ events'[f] = Append(events[f], Event(name, "Skipped"))
            /\ (/\ FireNext(f, FALSE)
                /\ name \in DOMAIN entries
                /\ entries[name].enabled
                /\ IsSome(entries[name].rate_limit)) =>
                    IF Len(kept) < rl.max_calls
                    THEN /\ Unwrap(entries'[name].rate_limit).calls =
                                Append(kept, now)
                         /\ fires'[f].pc = "ready"
                         /\ events'[f] = Append(events[f], Event(name, "Skipped"))
                    ELSE /\ fires'[f].pc = "done"
                         /\ fires'[f].result = Some(Err(
                                rate_limit_exceeded(name, rl.max_calls, rl.window)))
                         /\ events'[f] = events[f]]_vars

\* no handler has executed: the one slot of a's window went to the check of
\* fire 1, which then skipped a, and fire 2 was refused
C34_Witness ==
    /\ "a" \in DOMAIN entries
    /\ entries["a"].enabled
    /\ executions = 0
    /\ active = EmptyMap
    /\ events[1] = <<Event("a", "Skipped")>>
    /\ fires[2].pc = "done"
    /\ fires[2].result = Some(Err(rate_limit_exceeded("a", 1, 2)))

\* C35: an execution that returns the Error result is recorded as a success:
\* the successful counter goes up and the failed one does not, PostExecution
\* is emitted and the history record spawned carries the tag success, while
\* the fire returns HandlerExecutionFailed; the failed counter goes up only
\* when the handler returned an error of its own or the timer elapsed.
C35_ErrorResultIsSuccess ==
    [][\A f \in Fires :
        /\ (/\ fires[f].pc = "awaiting"
            /\ Len(returned'[f]) = Len(returned[f]) + 1
            /\ Last(returned'[f]).result.kind = "Error") =>
                LET h == fires[f].handler IN
                /\ entries'[h].stats.successful_executions =
                       entries[h].stats.successful_executions + 1
                /\ entries'[h].stats.failed_executions =
                       entries[h].stats.failed_executions
                /\ events'[f] = Append(events[f], Event(h, "PostExecution"))
                /\ \E d \in 0..MaxTime :
                       spawned' = spawned (+) SetToBag({HistoryEntry(
                           fires[f].hook_type, h, d, "success")})
                /\ fires'[f].pc = "done"
                /\ fires'[f].result = Some(Err(execution_failed(
                       h, Last(returned'[f]).result.message)))
        /\ \A n \in DOMAIN entries \cap DOMAIN entries' :
              entries'[n].stats.failed_executions #
                  entries[n].stats.failed_executions =>
                      \E g \in Fires :
                          /\ Len(returned'[g]) = Len(returned[g]) + 1
                          /\ Last(returned'[g]).handler = n
                          /\ Last(returned'[g]).result.kind
                                 \in {"HandlerError", "Elapsed"}]_vars

\* the only execution of a returned the Error result: one success, no
\* failure, and the fire has failed
C35_Witness ==
    /\ "a" \in DOMAIN entries
    /\ entries["a"].stats.successful_executions = 1
    /\ entries["a"].stats.failed_executions = 0
    /\ fires[1].pc = "done"
    /\ fires[1].result = Some(Err(execution_failed("a", "policy reject")))
    /\ Last(events[1]) = Event("a", "PostExecution")
    /\ history = <<HistoryEntry("request_received", "a", 0, "success")>>

\* of the records of handler n in recs: how many, the sum of their durations
\* and the largest of them
RECURSIVE Recorded(_, _)
Recorded(n, recs) ==
    IF recs = <<>> THEN [count |-> 0, sum |-> 0, max |-> 0]
    ELSE LET r == Recorded(n, Tail(recs))
             d == Head(recs).duration
         IN  IF Head(recs).handler # n THEN r
             ELSE [count |-> r.count + 1, sum |-> r.sum + d,
                   max |-> IF d > r.max THEN d ELSE r.max]

\* C36: once the records of its executions are all in the history, the
\* average_duration of a handler is the mean of the durations recorded, whole
\* and rounded down, and its max_duration the largest of them.
C36_MeanAndMax ==
    \A n \in DOMAIN entries :
        (Quiet /\ entries[n].stats.total_executions > 0) =>
            LET r == Recorded(n, history) IN
            /\ r.count = entries[n].stats.total_executions
            /\ entries[n].stats.max_duration = Some(r.max)
            /\ entries[n].stats.average_duration = Some(r.sum \div r.count)

\* C37: the global timeout bounds each execution on its own.  The timer cuts
\* a handler off only when that handler's own execution, counted from its
\* start, has lasted the global timeout, however long the fire has been
\* running; until then the handler can return, and a fire whose handlers
\* have all returned Continue succeeds.
C37_TimeoutPerHandler ==
    /\ [][\A f \in Fires :
            (/\ Len(returned'[f]) = Len(returned[f]) + 1
             /\ Last(returned'[f]).result.kind = "Elapsed") =>
                now - active[fires[f].handler] >= global_timeout]_vars
    /\ [](\A f \in Fires :
            /\ (/\ fires[f].pc = "awaiting"
                /\ now - active[fires[f].handler] < global_timeout
                /\ Quiet) =>
                    ENABLED HandlerReturns(f, Continue)
            /\ (/\ fires[f].pc = "done"
                /\ Len(returned[f]) = Len(fires[f].names)
                /\ \A i \in 1..Len(returned[f]) :
                       returned[f][i].result = Continue) =>
                    fires[f].result = Some(Ok(fires[f].input)))

\* under a global timeout of one tick two handlers ran for one tick each,
\* two ticks in all, and the fire succeeded
C37_Witness ==
    /\ global_timeout = 1
    /\ fires[1].pc = "done"
    /\ fires[1].result = Some(Ok(0))
    /\ Len(returned[1]) = 2
    /\ \A n \in {"a", "b"} :
           /\ n \in DOMAIN entries
           /\ entries[n].stats.total_executions = 1
           /\ entries[n].stats.max_duration = Some(1)

\* the tag record_history is given for an outcome
TagOf(outcome) ==
    CASE outcome.result.kind = "Elapsed"      -> "timeout"
      [] outcome.result.kind = "HandlerError" -> "error"
      [] OTHER                                -> "success"

\* C38: the step in which an execution ends (success, handler error or
\* timeout) spawns one record with the handler's name and the tag of the
\* outcome and leaves the history as it is, the fire going on or returning in
\* that same step; nothing else spawns a record, a spawned record leaves only
\* by being appended to the history, and every spawned record is eventually
\* in the history.
C38_HistoryEventually ==
    /\ [][\A f \in Fires :
            Len(returned'[f]) = Len(returned[f]) + 1 =>
                /\ \E d \in 0..MaxTime :
                       spawned' = spawned (+) SetToBag({HistoryEntry(
                           fires[f].hook_type, Last(returned'[f]).handler, d,
                           TagOf(Last(returned'[f])))})
                /\ history' = history
                /\ fires'[f].pc \in {"ready", "done"}]_vars
    /\ [][spawned' # spawned =>
            \/ \E f \in Fires : Len(returned'[f]) = Len(returned[f]) + 1
            \/ \E e \in BagToSet(spawned) :
                   /\ spawned' = spawned (-) SetToBag({e})
                   /\ history' = Append(history, e)]_vars
    /\ \A n \in {"a", "b"}, d \in 0..MaxTime, t \in {"success", "error", "timeout"} :
           LET e == HistoryEntry("request_received", n, d, t)
           IN  (e \in BagToSet(spawned)) ~> (\E i \in 1..Len(history) : history[i] = e)

\* the fire has returned its Timeout error while the records of its two
\* executions, one of each handler, are still to be appended
C38_Witness ==
    /\ fires[1].pc = "done"
    /\ ~Unwrap(fires[1].result).ok
    /\ Unwrap(fires[1].result).error.kind = "Timeout"
    /\ history = <<>>
    /\ BagCardinality(spawned) = 2
    /\ \E d \in 0..MaxTime :
           HistoryEntry("request_received", fires[1].names[2], d, "timeout")
               \in BagToSet(spawned)

\* C39: every execute call goes on to its return under any interleaving with
\* registry calls, also when a handler fires a hook on the same manager:
\* while the host's call is in progress (and the bound on executions leaves
\* room) a step of one of the two calls or of their handlers is possible.
C39_ExecuteReturns ==
    (/\ fires[1].pc \in {"ready", "awaiting"}
     /\ executions < MaxExec) => ENABLED NestedSteps

\* the limiter after k calls of check_and_update at time t
RECURSIVE CheckedTimes(_, _, _)
CheckedTimes(rl, t, k) ==
    IF k = 0 THEN rl ELSE check_and_update(CheckedTimes(rl, t, k - 1), t)

\* C40: after a successful set_rate_limit(name, max, window) the handler's
\* limiter is a new one with that limit and no call in it, whatever limiter
\* there was and however many calls it had admitted, so that each of the
\* next max checks made right after the call admits.
C40_SetRateLimitResets ==
    (ret.op = "set_rate_limit" /\ ret.result.ok) =>
        /\ entries[ret.name].rate_limit =
               Some([max_calls |-> ret.max_calls, window |-> ret.window, calls |-> <<>>])
        /\ \A k \in 0..(ret.max_calls - 1) :
               Admits(CheckedTimes(Unwrap(entries[ret.name].rate_limit), now, k), now)

\* the limit is set anew in the instant in which a fire was denied for the
\* limit in force, every call that limiter admitted being still inside its
\* window
C40_Witness ==
    /\ ret.op = "set_rate_limit"
    /\ ret.result.ok
    /\ ret.max_calls >= 1
    /\ now = 0
    /\ fires[1].pc = "done"
    /\ ~Unwrap(fires[1].result).ok
    /\ Unwrap(fires[1].result).error.kind = "RateLimitExceeded"
    /\ Unwrap(fires[1].result).error.limit >= 1
    /\ entries[ret.name].stats.total_executions >= 1

====
